---- MODULE Spec2Model ----
(***************************************************************************)
(* Object counting for pack generation (git-pack, count::objects) and the  *)
(* index traversal with lookup (git-pack, index::traverse::with_lookup).   *)
(*                                                                         *)
(* Spec          : one call of objects_unthreaded() followed by a second   *)
(*                 call (objects() or objects_unthreaded()) on the same    *)
(*                 input, so that results of the two can be compared.      *)
(* SpecTraverse  : one call of traverse_with_lookup().                     *)
(* SpecWalk      : one call of gix_dir::walk().                            *)
(* SpecConfig    : the section operations of a git_config::File.           *)
(* SpecDescribe  : one call of git_revision::describe().                   *)
(* SpecMalformed : the calls of Spec on inputs that lead to a commit       *)
(*                 without a tree id or a tag without a target id.         *)
(* SpecMissingBlob : the calls of Spec on trees that hold a blob the store *)
(*                 does not have.                                          *)
(***************************************************************************)
EXTENDS Integers, Sequences, FiniteSets, TLC

(***************************************************************************)
(* Bounds of the model.                                                    *)
(***************************************************************************)
MaxInputLen == 2
MaxThreads == 2
MaxChunkSize == 2

(***************************************************************************)
(* The object store.  Ids are strings; "" stands for "no id".              *)
(***************************************************************************)
\* decode_err: the token that follows the parents of a commit does not parse.
NoObj == [kind |-> "None", tree |-> "", parents |-> <<>>, entries |-> <<>>, target |-> "",
          decode_err |-> FALSE]
CommitObj(t, ps) == [NoObj EXCEPT !.kind = "Commit", !.tree = t, !.parents = ps]
CorruptCommitObj(t, ps) == [CommitObj(t, ps) EXCEPT !.decode_err = TRUE]
TreeObj(es) == [NoObj EXCEPT !.kind = "Tree", !.entries = es]
BlobObj == [NoObj EXCEPT !.kind = "Blob"]
TagObj(t) == [NoObj EXCEPT !.kind = "Tag", !.target = t]
Entry(n, m, o) == [name |-> n, mode |-> m, oid |-> o]

\* c0, c2: commits without parents; c1: one parent; m: a merge of c0 and c1
\* that took c1's tree; g: a tag of c0.  Entry names are numbers, entries
\* are sorted by name as in a tree object.
Db ==
    ( "b1" :> BlobObj @@ "b2" :> BlobObj @@ "b3" :> BlobObj
   @@ "t1" :> TreeObj(<<Entry(1, "Blob", "b1")>>)
   @@ "t2" :> TreeObj(<<Entry(1, "Blob", "b1"), Entry(2, "Blob", "b3")>>)
   @@ "r0" :> TreeObj(<<Entry(1, "Tree", "t1"), Entry(2, "Blob", "b2")>>)
   @@ "r1" :> TreeObj(<<Entry(1, "Tree", "t2"), Entry(2, "Blob", "b2")>>)
   @@ "c0" :> CommitObj("r0", <<>>)
   @@ "c2" :> CommitObj("r1", <<>>)
   @@ "c1" :> CommitObj("r1", <<"c0">>)
   @@ "m"  :> CommitObj("r1", <<"c0", "c1">>)
   @@ "g"  :> TagObj("c0")
   \* objects that refer to ids the store does not have: "x" and "y"
   @@ "tb" :> TreeObj(<<Entry(1, "Tree", "y")>>)
   @@ "rb" :> TreeObj(<<Entry(1, "Tree", "y"), Entry(2, "Blob", "b2")>>)
   @@ "cb" :> CommitObj("tb", <<>>)
   @@ "cd" :> CommitObj("rb", <<"c0">>)
   @@ "cx" :> CommitObj("x", <<>>)
   @@ "cp" :> CommitObj("r0", <<"x">>)
   @@ "cq" :> CommitObj("r0", <<"cx">>)
   @@ "gx" :> TagObj("x")
   \* malformed objects: a commit without a tree id, a tag without a target
   \* id, and a commit whose parent has no tree id
   @@ "cn" :> CommitObj("", <<>>)
   @@ "gn" :> TagObj("")
   @@ "cm" :> CommitObj("r0", <<"cn">>)
   \* a commit of r0 whose header does not parse after the tree
   @@ "ce" :> CorruptCommitObj("r0", <<>>)
   \* trees with a blob "z" the store does not have: tz alone, rz = r0 with z
   \* added; cz: a commit of rz on top of c0
   @@ "tz" :> TreeObj(<<Entry(1, "Blob", "z")>>)
   @@ "rz" :> TreeObj(<<Entry(1, "Tree", "t1"), Entry(2, "Blob", "b2"), Entry(3, "Blob", "z")>>)
   @@ "cz" :> CommitObj("rz", <<"c0">>) )

\* An input item for which the caller's iterator yields Err.
IterErr == "IterErr"
\* What the caller may pass: ids of the store, an id the store does not have
\* ("x"), and an iteration error.
AllItems == {"c0", "c2", "c1", "m", "g", "t1", "r0", "b1", "x", IterErr}
\* The items of the runs with worker threads.
ThreadedItems == {"c0", "m", "g", "t1", "x", IterErr}

\* Inputs that make a lookup or a decode fail: a missing root ("x"), a tag of
\* a missing object, commits with a missing tree, a missing parent, a parent
\* with a missing tree, commits whose tree or whose diff needs a missing
\* subtree, a commit whose header does not parse; next to them a commit that
\* is in order, a tree with a blob the store does not have, and an iteration
\* error.
FailingItems == {"x", "gx", "cx", "cp", "cq", "cb", "cd", "ce", "c0", "tz", IterErr}

\* Inputs that lead to a malformed object, next to commits that are in order
\* and an id the store does not have.
MalformedItems == {"cn", "gn", "cm", "c0", "c1", "x"}

\* Inputs that lead to a blob the store does not have, next to a starting id
\* it does not have.
MissingBlobItems == {"tz", "rz", "cz", "c0", "x"}

Policies == {"AsIs", "TreeContents", "TreeAdditionsComparedToAncestor"}

\* db.find(id, ..): NoObj stands for Err.
Find(id) == IF id \in DOMAIN Db THEN Db[id] ELSE NoObj

\* db.find_tree_iter(oid, ..).ok() / obj.try_into_tree_iter(): Some only for a tree.
IsTree(id) == Find(id).kind = "Tree"

RECURSIVE SeqsUpTo(_, _)
SeqsUpTo(n, items) ==
    IF n = 0 THEN {<<>>}
    ELSE LET S == SeqsUpTo(n - 1, items)
         IN S \cup {Append(s, x) : s \in {t \in S : Len(t) = n - 1}, x \in items}

Range(s) == {s[i] : i \in 1..Len(s)}
Ids(counts) == {counts[i].id : i \in 1..Len(counts)}

(***************************************************************************)
(* State.                                                                  *)
(***************************************************************************)
VARIABLES
    \* count::objects
    objects_ids,             \* the input sequence handed to both calls
    scenario,                \* [first, fn, second]: policy of the first call, function and policy of the second
    phase,                   \* "first" | "second": which call is running (or has returned)
    fn,                      \* "objects_unthreaded" | "objects": the function of the running call
    input_object_expansion,  \* the policy of the running call
    chunk_size, thread_limit,\* effective values after optimize_chunk_size_and_thread_limit
    diff_queues_equal_trees, \* git_diff: whether two subtrees of the same name and id are queued (and loaded) all the same
    should_interrupt,        \* the AtomicBool
    seen_objs,               \* the seen set of the running call
    chunks,                  \* chunks not yet handed to a worker
    workers,                 \* per worker: the locals of expand::this
    reducer,                 \* reduce::Statistics
    ret,                     \* what the running call returned (res = "none" while it runs)
    first_ret,               \* what the first call returned
    interrupt_on_entry,      \* history: should_interrupt when the running call was entered
    interrupt_observed,      \* history: a per-id check of the running call found the flag set
    db_find_called,          \* history: the running call has called db.find
    find_failures,           \* history: the ids the store failed to find or load as a tree, per failed lookup of the running call
    \* index::File::traverse_with_lookup
    index_entries,           \* per index entry, by ascending pack offset: what decoding and processing it gives
    check,                   \* the SafetyCheck
    pack_checksum_ok,        \* whether the checksums of pack and index match their trailers
    available_cores,         \* third value of optimize_chunk_size_and_thread_limit
    verify_result,           \* result of the verification closure ("none" while it runs)
    traversal_result,        \* result of the traversal closure ("none" while it runs)
    input_chunks,            \* chunks of entries not yet handed out
    decoders,                \* per thread: the locals of the worker closure
    trav_reducer,            \* traverse::Reducer
    progress_info,           \* number of info messages sent to a thread's progress
    processed,               \* the entries handed to the processor, in call order per thread
    decoded,                 \* history: the entries decode_and_process_entry was called on
    tret,                    \* what traverse_with_lookup returned ("none" before)
    is_interrupted,          \* git_features::interrupt: the flag of the process
    was_interrupted,         \* the ResetOnDrop `_reset_interrupt`: the flag of the process when the call was entered
    \* gix_dir::walk; a path is the sequence of its components
    root, worktree_root,     \* the arguments of walk()
    symlinks,                \* the file system: the paths that are symbolic links
    missing,                 \* the file system: paths that do not exist (nor does anything below them)
    walk_pc,                 \* position inside assure_no_symlink_in_root / walk
    current,                 \* the PathBuf `current`
    worktree_relative,       \* the normalized worktree-relative root
    idx,                     \* position of the component loop
    walk_ret,                \* what walk() returned
    symlink_metadata_calls,  \* history: the paths symlink_metadata was called on
    for_each_calls,          \* history: number of calls of for_each
    \* git_config::File
    section_lookup_tree,     \* name -> sequence of LookupTreeNode
    section_headers,         \* SectionId -> ParsedSectionHeader
    sections,                \* SectionId -> SectionBody
    section_order,           \* the VecDeque of SectionId, in file order
    section_id_counter,      \* the next SectionId
    config_ret,              \* the last method called on the File, its arguments and what it returned
    \* git_revision::describe; commits are numbers, a Flags value is the set of the positions of its one bits
    commit_parents,          \* the object database: per commit, its parent tokens in order
    commit_date,             \* the object database: per commit, the committer time
    commit_state,            \* the object database: per commit "ok", "missing" (find fails) or "corrupt" (decoding fails)
    name_by_oid,             \* Options::name_by_oid
    max_candidates_option,   \* Options::max_candidates
    fallback_to_oid,         \* Options::fallback_to_oid
    describe_pc,             \* position inside describe()
    max_candidates,          \* the local max_candidates
    queue, candidates, seen_commits, gave_up_on_commit, seen,  \* the locals of describe()
    enqueued,                \* history: the ids parent expansion put on the queue, in order
    describe_ret             \* what describe() returned

\* Arguments of the calls.
args == <<objects_ids, scenario, chunk_size, thread_limit, diff_queues_equal_trees>>
\* What changes only between the two calls.
call == <<phase, fn, input_object_expansion, first_ret, interrupt_on_entry>>
expand_vars == <<args, call, seen_objs, chunks, workers, reducer, ret,
                 interrupt_observed, db_find_called, find_failures>>
trav_vars == <<index_entries, check, pack_checksum_ok, available_cores, verify_result,
               traversal_result, input_chunks, decoders, trav_reducer, progress_info,
               processed, decoded, tret, is_interrupted, was_interrupted>>

\* gix_dir::walk
walk_vars == <<root, worktree_root, symlinks, missing, walk_pc, current, worktree_relative,
               idx, walk_ret, symlink_metadata_calls, for_each_calls>>
\* git_config::File
config_vars == <<section_lookup_tree, section_headers, sections, section_order,
                 section_id_counter, config_ret>>
\* git_revision::describe
describe_args == <<commit_parents, commit_date, commit_state, name_by_oid,
                   max_candidates_option, fallback_to_oid>>
describe_vars == <<describe_args, describe_pc, max_candidates, queue, candidates, seen_commits,
                   gave_up_on_commit, seen, enqueued, describe_ret>>
\* What the calls of count::objects and traverse_with_lookup never touch.
aux_vars == <<walk_vars, config_vars, describe_vars>>
\* What walk() never touches.
not_walk_vars == <<expand_vars, should_interrupt, trav_vars, config_vars, describe_vars>>
\* What the methods of File never touch.
not_config_vars == <<walk_vars, expand_vars, should_interrupt, trav_vars, describe_vars>>
\* What describe() never touches.
not_describe_vars == <<walk_vars, expand_vars, should_interrupt, trav_vars, config_vars>>

vars == <<expand_vars, should_interrupt, trav_vars, aux_vars>>

NoWalkRet == [res |-> "none", component_index |-> 0]

\* No walk is going on.
WalkIdle ==
    /\ root = <<>>
    /\ worktree_root = <<>>
    /\ symlinks = {}
    /\ missing = {}
    /\ walk_pc = "done"
    /\ current = <<>>
    /\ worktree_relative = <<>>
    /\ idx = 0
    /\ walk_ret = NoWalkRet
    /\ symlink_metadata_calls = <<>>
    /\ for_each_calls = 0

\* Option::None of a subsection name, and of a returned body.
None == "None"

EmptyMap == [k \in {} |-> <<>>]

NoConfigRet == [op |-> "none", name |-> "", subsection_name |-> None, res |-> "none", body |-> <<>>]

\* File::new(): Self::default().
NewFile ==
    /\ section_lookup_tree = EmptyMap
    /\ section_headers = EmptyMap
    /\ sections = EmptyMap
    /\ section_order = <<>>
    /\ section_id_counter = 0
    /\ config_ret = NoConfigRet

NoDescribeRet == [res |-> "none", name |-> 0, id |-> 0, depth |-> 0, oid |-> 0]

\* The locals of describe() before it is entered.
DescribeNotEntered ==
    /\ max_candidates = 0
    /\ queue = <<>>
    /\ candidates = <<>>
    /\ seen_commits = 0
    /\ gave_up_on_commit = 0
    /\ seen = EmptyMap
    /\ enqueued = <<>>
    /\ describe_ret = NoDescribeRet

\* No describe() is going on.
DescribeIdle ==
    /\ commit_parents = <<>>
    /\ commit_date = <<>>
    /\ commit_state = <<>>
    /\ name_by_oid = EmptyMap
    /\ max_candidates_option = 0
    /\ fallback_to_oid = FALSE
    /\ describe_pc = "done"
    /\ DescribeNotEntered

AuxIdle == WalkIdle /\ NewFile /\ DescribeIdle


ZeroOutcome == [input_objects |-> 0, expanded_objects |-> 0, decoded_objects |-> 0]

NoRet == [res |-> "none", err_id |-> "", counts |-> <<>>, outcome |-> ZeroOutcome]

IdleWorker ==
    [pc |-> "idle", oids |-> <<>>, id |-> "", out |-> <<>>, outcome |-> ZeroOutcome,
     ents |-> <<>>, next |-> <<>>, non_trees |-> <<>>,
     changes |-> <<>>, diff_err |-> "", objects |-> <<>>,
     parent_commit_ids |-> <<>>, tree_id |-> "", parent_tree_id |-> "",
     resolved |-> FALSE, root_counts |-> 0,
     res |-> "none", err_id |-> ""]

AllowPackLookups == fn = "objects"

(***************************************************************************)
(* expand::this, the parts that touch no shared state.                     *)
(***************************************************************************)
\* The errors of a lookup that gave no object, or no tree where one was
\* needed: `db.find(..)?`, `.map_err(Error::TreeTraverse)?` and
\* `.map_err(Error::TreeChanges)?`.
FindErrors == {"Find", "TreeTraverse", "TreeChanges"}

\* The history of failed lookups after a step that left a worker with locals l.
NoteFindFailure(failures, l) ==
    IF l.pc = "result" /\ l.res \in FindErrors THEN Append(failures, l.err_id) ELSE failures

\* A lookup that is going to fail is a step of its own: the inserts into the
\* seen set before it have returned, and other threads run in between.
AwaitLookup(l) ==
    IF l.pc = "result" /\ l.res \in FindErrors THEN [l EXCEPT !.pc = "lookup"] ELSE l

\* Variant: an item that fails is left out and the loop goes on.
FailSkipsItem(l, kind, id) ==
    LET l1 == [l EXCEPT !.oids = IF kind = "InputIteration" THEN Tail(@) ELSE @]
    IN IF l1.oids = <<>> THEN [l1 EXCEPT !.pc = "result", !.res = "Ok"]
       ELSE [l1 EXCEPT !.pc = "loop"]

\* Variant: what was collected so far is returned as a success.
FailPartial(l, kind, id) == [l EXCEPT !.pc = "result", !.res = "Ok"]

\* `return Err(..)` / `?`: the locals are dropped, only the error is returned.
Fail(l, kind, id) ==
    [IdleWorker EXCEPT !.pc = "result", !.res = kind, !.err_id = id]

\* Variant: a missing tree or target id is reported like a failed lookup.
ExpectReturnsErr(l) == [IdleWorker EXCEPT !.pc = "result", !.res = "Find"]

\* `.expect("every commit has a tree")` / `.expect("every tag has a target")`
\* on None: the thread panics, nothing is returned.
ExpectFailed(l) == [IdleWorker EXCEPT !.pc = "result", !.res = "Panic"]

\* Bottom of the `for id in oids` loop: the next item, or `Ok((out, outcome))`.
Continue(l) ==
    IF l.oids = <<>> THEN [l EXCEPT !.pc = "result", !.res = "Ok"]
    ELSE [l EXCEPT !.pc = "loop"]

\* output::Count::from_data(id, obj)
FromData(id) == [id |-> id, entry_pack_location |-> "LookedUp"]

\* id_to_count
IdToCount(id, allow_pack_lookups) ==
    [id |-> id, entry_pack_location |-> IF allow_pack_lookups THEN "LookedUp" ELSE "NotLookedUp"]

RECURSIVE IdsToCounts(_, _)
IdsToCounts(ids, allow_pack_lookups) ==
    IF ids = <<>> THEN <<>>
    ELSE <<IdToCount(Head(ids), allow_pack_lookups)>> \o IdsToCounts(Tail(ids), allow_pack_lookups)

\* `for id in objects.iter() { out.push(id_to_count(..)) }`
\* Variant: every collected object is looked up before it is counted.
EmitAllFound(l, ids, allow_pack_lookups) ==
    IF \E i \in DOMAIN ids : Find(ids[i]).kind = "None"
    THEN Fail(l, "Find", ids[CHOOSE i \in DOMAIN ids : Find(ids[i]).kind = "None"])
    ELSE [l EXCEPT !.out = @ \o IdsToCounts(ids, allow_pack_lookups),
                   !.outcome.expanded_objects = @ + Len(ids)]

EmitAll(l, ids, allow_pack_lookups) ==
    [l EXCEPT !.out = @ \o IdsToCounts(ids, allow_pack_lookups),
              !.outcome.expanded_objects = @ + Len(ids)]

\* Variant: the Count is pushed whether or not the id was newly inserted.
PushObjCountAlways(l, all_seen, id, count_expanded) ==
    [l |-> [l EXCEPT !.outcome.decoded_objects = @ + 1,
                     !.outcome.expanded_objects = @ + (IF count_expanded THEN 1 ELSE 0),
                     !.out = Append(@, [id |-> id, entry_pack_location |-> "LookedUp"])],
     seen |-> all_seen \cup {id}]

\* Variant: every pushed object counts as expanded, count_expanded is ignored.
PushObjCountExpanded(l, all_seen, id, count_expanded) ==
    IF id \notin all_seen
    THEN [l |-> [l EXCEPT !.outcome.decoded_objects = @ + 1,
                          !.outcome.expanded_objects = @ + 1,
                          !.out = Append(@, [id |-> id, entry_pack_location |-> "LookedUp"])],
          seen |-> all_seen \cup {id}]
    ELSE [l |-> l, seen |-> all_seen]

\* Variant: the pushed object is not counted as decoded.
PushObjCountUndecoded(l, all_seen, id, count_expanded) ==
    IF id \notin all_seen
    THEN [l |-> [l EXCEPT !.outcome.expanded_objects = @ + (IF count_expanded THEN 1 ELSE 0),
                          !.out = Append(@, [id |-> id, entry_pack_location |-> "LookedUp"])],
          seen |-> all_seen \cup {id}]
    ELSE [l |-> l, seen |-> all_seen]

\* push_obj_count_unique: returns the new locals and the new seen set.
PushObjCountUnique(l, all_seen, id, count_expanded) ==
    IF id \notin all_seen
    THEN [l |-> [l EXCEPT !.outcome.decoded_objects = @ + 1,
                          !.outcome.expanded_objects = @ + (IF count_expanded THEN 1 ELSE 0),
                          !.out = Append(@, FromData(id))],
          seen |-> all_seen \cup {id}]
    ELSE [l |-> l, seen |-> all_seen]

\* all_seen.insert(oid) of a delegate: TRUE iff newly inserted.
Inserted(all_seen, oid) == oid \notin all_seen

\* Variant: the traversal ends with the entries of the root tree, queued
\* subtrees are never loaded.
TravShallow(l, allow_pack_lookups) ==
    IF l.ents # <<>> THEN [l EXCEPT !.pc = "trav"]
    ELSE Continue(EmitAll(l, l.non_trees, allow_pack_lookups))

\* git_traverse::tree::breadthfirst between two visits: when the entries of
\* the current tree are exhausted, pop the next tree id, load it with the
\* `find` closure (which counts it), and go on; with nothing queued the
\* traversal is over and the collected non-trees are counted.
RECURSIVE TravSettle(_, _)
TravSettle(l, allow_pack_lookups) ==
    IF l.ents # <<>> THEN [l EXCEPT !.pc = "trav"]
    ELSE IF l.next = <<>> THEN Continue(EmitAll(l, l.non_trees, allow_pack_lookups))
    ELSE LET oid == Head(l.next)
         IN IF Find(oid).kind = "None" THEN Fail(l, "TreeTraverse", oid)
            ELSE LET l1 == [l EXCEPT !.next = Tail(@),
                                     !.outcome.decoded_objects = @ + 1,
                                     !.outcome.expanded_objects = @ + 1,
                                     !.out = Append(@, FromData(oid))]
                 IN IF ~IsTree(oid) THEN Fail(l, "TreeTraverse", oid)
                    ELSE TravSettle([l1 EXCEPT !.ents = Find(oid).entries], allow_pack_lookups)

\* traverse_delegate.clear(); breadthfirst(root entries, ..)
StartTraversal(l, tree, allow_pack_lookups) ==
    TravSettle([l EXCEPT !.non_trees = <<>>, !.next = <<>>, !.ents = Find(tree).entries],
               allow_pack_lookups)

(***************************************************************************)
(* git_diff::tree::Changes::needed_to_obtain with the find closure of      *)
(* expand::this.  The delegate (tree::changes::AllNew) always continues,   *)
(* so which changes are visited depends on the two trees only.             *)
(***************************************************************************)
NoChanges == [visits |-> <<>>, queued |-> <<>>]

\* One pair of entries with the same name.  Two trees are visited as a
\* Modification when their ids differ; whether the pair is queued when the
\* ids are equal is up to the diff in use.
SameName(l, r) ==
    IF l.mode = "Tree" /\ r.mode = "Tree"
    THEN IF l.oid = r.oid
         THEN [visits |-> <<>>,
               queued |-> IF diff_queues_equal_trees THEN << <<l.oid, r.oid>> >> ELSE <<>>]
         ELSE [visits |-> <<r.oid>>, queued |-> << <<l.oid, r.oid>> >>]
    ELSE IF r.mode = "Tree" THEN [visits |-> <<r.oid>>, queued |-> << <<"", r.oid>> >>]
    ELSE IF l.mode = "Tree" THEN [visits |-> <<r.oid>>, queued |-> << <<l.oid, "">> >>]
    ELSE IF l.oid = r.oid THEN NoChanges
    ELSE [visits |-> <<r.oid>>, queued |-> <<>>]

\* The entries of two trees, both sorted by name, compared in lockstep.
\* visits: the oids of the Addition and Modification changes, in order;
\* queued: the pairs of subtrees (lhs or "", rhs or "") scheduled for recursion.
RECURSIVE DiffEntries(_, _)
DiffEntries(le, re) ==
    IF le = <<>> /\ re = <<>> THEN NoChanges
    ELSE IF re = <<>> \/ (le # <<>> /\ Head(le).name < Head(re).name)
    THEN \* Deletion
         LET e == Head(le)
             r == DiffEntries(Tail(le), re)
         IN [visits |-> r.visits,
             queued |-> (IF e.mode = "Tree" THEN << <<e.oid, "">> >> ELSE <<>>) \o r.queued]
    ELSE IF le = <<>> \/ Head(re).name < Head(le).name
    THEN \* Addition
         LET e == Head(re)
             r == DiffEntries(le, Tail(re))
         IN [visits |-> <<e.oid>> \o r.visits,
             queued |-> (IF e.mode = "Tree" THEN << <<"", e.oid>> >> ELSE <<>>) \o r.queued]
    ELSE LET c == SameName(Head(le), Head(re))
             r == DiffEntries(Tail(le), Tail(re))
         IN [visits |-> c.visits \o r.visits, queued |-> c.queued \o r.queued]

\* The queue of subtree pairs.  Every load goes through the find closure,
\* which counts it (loads) before it asks the store; a tree that cannot be
\* loaded ends the diff with an error after the visits made so far.
RECURSIVE DiffQueue(_, _)
DiffQueue(q, acc) ==
    IF q = <<>> THEN acc
    ELSE LET lid == Head(q)[1]
             rid == Head(q)[2]
         IN IF lid # "" /\ ~IsTree(lid)
            THEN [acc EXCEPT !.loads = @ + 1, !.err = lid]
            ELSE IF rid # "" /\ ~IsTree(rid)
            THEN [acc EXCEPT !.loads = @ + (IF lid # "" THEN 2 ELSE 1), !.err = rid]
            ELSE LET d == DiffEntries(IF lid # "" THEN Find(lid).entries ELSE <<>>,
                                      IF rid # "" THEN Find(rid).entries ELSE <<>>)
                 IN DiffQueue(Tail(q) \o d.queued,
                              [acc EXCEPT !.visits = @ \o d.visits,
                                          !.loads = @ + (IF lid # "" THEN 1 ELSE 0)
                                                      + (IF rid # "" THEN 1 ELSE 0)])

\* Changes::from(Some(parent_tree)).needed_to_obtain(current_tree, ..): the two
\* root trees are already decoded by the caller.
TreeChanges(parent_tree, current_tree) ==
    LET d == DiffEntries(Find(parent_tree).entries, Find(current_tree).entries)
    IN DiffQueue(d.queued, [visits |-> d.visits, loads |-> 0, err |-> ""])

\* Between two visits of the diff: when the changes of this parent are
\* exhausted, report a load error, go on with the next parent, or count the
\* objects the delegate holds.
DiffSettle(l, allow_pack_lookups) ==
    IF l.changes # <<>> THEN [l EXCEPT !.pc = "diff"]
    ELSE IF l.diff_err # "" THEN Fail(l, "TreeChanges", l.diff_err)
    ELSE IF l.parent_commit_ids # <<>> THEN [l EXCEPT !.pc = "push_parent"]
    ELSE Continue(EmitAll(l, l.objects, allow_pack_lookups))

\* changes_delegate.clear(); needed_to_obtain(..)
StartChanges(l, allow_pack_lookups) ==
    LET d == TreeChanges(l.parent_tree_id, l.tree_id)
    IN DiffSettle([l EXCEPT !.objects = <<>>,
                            !.changes = d.visits,
                            !.diff_err = d.err,
                            !.outcome.decoded_objects = @ + d.loads],
                  allow_pack_lookups)

\* Variant: a tree or target the store does not have is passed over.
ResolveIgnoresMissing(l, id) ==
    IF id = "" THEN ExpectFailed(l)
    ELSE IF Find(id).kind = "None" THEN Continue(l)
    ELSE [l EXCEPT !.id = id, !.outcome.expanded_objects = @ + 1, !.resolved = TRUE,
                   !.pc = "push_root"]

\* Variant: the tree of a commit and the target of a tag are not followed.
ResolveNothing(l, id) ==
    IF l.oids = <<>> THEN [l EXCEPT !.pc = "result", !.res = "Ok"]
    ELSE [l EXCEPT !.pc = "loop"]

\* `id = ..tree_id() / ..target_id(); expanded_objects += 1; obj = db.find(id)?; continue`
Resolve(l, id) ==
    IF id = "" THEN ExpectFailed(l)
    ELSE IF Find(id).kind = "None" THEN Fail(l, "Find", id)
    ELSE [l EXCEPT !.id = id, !.outcome.expanded_objects = @ + 1, !.resolved = TRUE,
                   !.pc = "push_root"]

\* Variant: a tree is traversed under TreeAdditionsComparedToAncestor as well.
AfterRootPushTraversesTrees(l, expansion, allow_pack_lookups) ==
    LET obj == Find(l.id)
    IN IF expansion = "AsIs" THEN Continue(l)
       ELSE CASE obj.kind = "Tree" -> StartTraversal(l, l.id, allow_pack_lookups)
              [] obj.kind = "Commit" -> Resolve(l, obj.tree)
              [] obj.kind = "Tag" -> Resolve(l, obj.target)
              [] OTHER -> Continue(l)

\* What follows the push of the root object (or of the object a tag or a
\* commit resolved to) up to the next access to shared state.  Under
\* TreeAdditionsComparedToAncestor the tokens of a commit are read up to the
\* first one that is no parent: `Err(err) => return Err(Error::CommitDecode(err))`
\* comes after `.expect("every commit has a tree")` and before the lookup of
\* the tree.  Under TreeContents only the tree id is read.
AfterRootPush(l, expansion, allow_pack_lookups) ==
    LET obj == Find(l.id)
    IN IF expansion = "AsIs" THEN Continue(l)
       ELSE IF expansion = "TreeContents"
       THEN CASE obj.kind = "Tree" -> StartTraversal(l, l.id, allow_pack_lookups)
              [] obj.kind = "Commit" -> Resolve(l, obj.tree)
              [] obj.kind = "Tag" -> Resolve(l, obj.target)
              [] OTHER -> Continue(l)
       ELSE CASE obj.kind = "Tag" -> Resolve(l, obj.target)
              [] obj.kind = "Commit" ->
                    IF obj.tree = "" THEN ExpectFailed(l)
                    ELSE IF obj.decode_err THEN Fail(l, "CommitDecode", "")
                    ELSE IF Find(obj.tree).kind = "None" THEN Fail(l, "Find", obj.tree)
                    ELSE [l EXCEPT !.parent_commit_ids = obj.parents,
                                   !.tree_id = obj.tree,
                                   !.pc = "push_tree"]
              [] OTHER -> Continue(l)

\* Variant: a commit without parents is done once its tree was pushed.
AfterTreePushNoTraversal(l, allow_pack_lookups) ==
    IF l.parent_commit_ids = <<>> THEN Continue(l)
    ELSE [l EXCEPT !.pc = "push_parent"]

\* After the commit's tree was pushed: traverse it when there is no parent,
\* otherwise go through the parents.
AfterTreePush(l, allow_pack_lookups) ==
    IF l.parent_commit_ids = <<>> THEN StartTraversal(l, l.tree_id, allow_pack_lookups)
    ELSE [l EXCEPT !.pc = "push_parent"]

\* util::Chunks: up to `size` items per chunk, no empty chunk.
RECURSIVE Chunks(_, _)
Chunks(iter, size) ==
    IF iter = <<>> THEN <<>>
    ELSE IF Len(iter) <= size THEN <<iter>>
    ELSE <<SubSeq(iter, 1, size)>> \o Chunks(SubSeq(iter, size + 1, Len(iter)), size)

\* Variant: the totals are overwritten by the latest chunk.
AggregateLast(total, o) == o

\* Outcome::aggregate
Aggregate(total, o) ==
    [input_objects |-> total.input_objects + o.input_objects,
     expanded_objects |-> total.expanded_objects + o.expanded_objects,
     decoded_objects |-> total.decoded_objects + o.decoded_objects]

(***************************************************************************)
(* Initial states: the caller's arguments.  The first call is              *)
(* objects_unthreaded(); its single "worker" 1 runs expand::this on the    *)
(* whole input.                                                            *)
(***************************************************************************)
\* The same policy without and with worker threads.
ThreadedScenarios ==
    {[first |-> p, fn |-> "objects", second |-> p] : p \in Policies}
\* Two policies without worker threads.
UnthreadedScenarios ==
    {[first |-> "TreeContents", fn |-> "objects_unthreaded",
      second |-> "TreeAdditionsComparedToAncestor"],
     [first |-> "AsIs", fn |-> "objects_unthreaded", second |-> "TreeContents"]}

Workers == 1..MaxThreads

Unthreaded(oids) == [w \in Workers |-> IF w = 1 THEN Continue([IdleWorker EXCEPT !.oids = oids])
                                                 ELSE IdleWorker]

NewReducer == [counts |-> <<>>, total |-> ZeroOutcome, res |-> "none", err_id |-> ""]

\* No traversal is going on.
TraverseIdle ==
    /\ index_entries = <<>>
    /\ check = "All"
    /\ pack_checksum_ok = TRUE
    /\ available_cores = 1
    /\ verify_result = "none"
    /\ traversal_result = "none"
    /\ input_chunks = <<>>
    /\ decoders = <<>>
    /\ trav_reducer = <<>>
    /\ progress_info = 0
    /\ processed = <<>>
    /\ decoded = <<>>
    /\ tret = "none"
    /\ is_interrupted = FALSE
    /\ was_interrupted = FALSE

InitWith(items, len, scenarios) ==
    /\ objects_ids \in SeqsUpTo(len, items)
    /\ scenario \in scenarios
    /\ phase = "first"
    /\ fn = "objects_unthreaded"
    /\ input_object_expansion = scenario.first
    /\ chunk_size \in (IF scenario.fn = "objects" THEN 1..MaxChunkSize ELSE {1})
    /\ thread_limit \in (IF scenario.fn = "objects" THEN 1..MaxThreads ELSE {1})
    /\ diff_queues_equal_trees \in
          (IF "TreeAdditionsComparedToAncestor" \in {scenario.first, scenario.second}
           THEN BOOLEAN ELSE {FALSE})
    /\ should_interrupt \in BOOLEAN
    /\ interrupt_on_entry = should_interrupt
    /\ seen_objs = {}
    /\ chunks = <<>>
    /\ workers = Unthreaded(objects_ids)
    /\ reducer = NewReducer
    /\ ret = NoRet
    /\ first_ret = NoRet
    /\ db_find_called = FALSE
    /\ find_failures = <<>>
    /\ interrupt_observed = FALSE
    /\ TraverseIdle
    /\ AuxIdle

Init == InitWith(ThreadedItems, MaxInputLen, ThreadedScenarios)

InitUnthreaded == InitWith(AllItems, MaxInputLen + 1, UnthreadedScenarios)

InitFailures == InitWith(FailingItems, MaxInputLen, ThreadedScenarios)

InitMalformed == InitWith(MalformedItems, MaxInputLen, ThreadedScenarios)

InitMissingBlob == InitWith(MissingBlobItems, MaxInputLen, ThreadedScenarios)

Running == ret.res = "none"

(***************************************************************************)
(* The caller holds the AtomicBool as well and may store true into it at   *)
(* any moment of a call.                                                   *)
(***************************************************************************)
Interrupt ==
    /\ Running
    /\ ~should_interrupt
    /\ should_interrupt' = TRUE
    /\ UNCHANGED <<args, call, seen_objs, chunks, workers, reducer, ret, interrupt_observed,
                   db_find_called, find_failures, trav_vars, aux_vars>>

(***************************************************************************)
(* expand::this, one step per access to shared state (the interrupt flag,  *)
(* the seen set); what a worker does between two accesses is local and     *)
(* part of the step.                                                       *)
(***************************************************************************)
\* stats.input_objects += 1
CountInput(outcome) == [outcome EXCEPT !.input_objects = @ + 1]

\* Variant: the flag is not looked at.
LoadNever(flag) == FALSE

\* Variant: the check gives true whatever the flag holds.
LoadAlways(flag) == TRUE

\* should_interrupt.load(Ordering::Relaxed)
Load(flag) == flag

\* Variant: the item is taken and looked up before the flag is checked.
NextIdItemFirst(w) ==
    /\ Running
    /\ workers[w].pc = "loop"
    /\ LET l == workers[w]
           item == Head(l.oids)
       IN IF item = IterErr
          THEN /\ workers' = [workers EXCEPT ![w] = Fail(l, "InputIteration", item)]
               /\ UNCHANGED <<db_find_called, interrupt_observed>>
          ELSE IF Find(item).kind = "None"
          THEN /\ workers' = [workers EXCEPT ![w] = AwaitLookup(Fail(l, "Find", item))]
               /\ db_find_called' = TRUE
               /\ UNCHANGED interrupt_observed
          ELSE IF Load(should_interrupt)
          THEN /\ workers' = [workers EXCEPT ![w] = Fail(l, "Interrupted", "")]
               /\ interrupt_observed' = TRUE
               /\ db_find_called' = TRUE
          ELSE /\ db_find_called' = TRUE
               /\ UNCHANGED interrupt_observed
               /\ workers' = [workers EXCEPT ![w] =
                     [l EXCEPT !.oids = Tail(@), !.id = item,
                               !.outcome = CountInput(@),
                               !.resolved = FALSE,
                               !.pc = "push_root"]]
    /\ UNCHANGED find_failures
    /\ UNCHANGED <<args, call, should_interrupt, seen_objs, chunks, reducer, ret, trav_vars, aux_vars>>

\* Top of the loop: the interrupt check, the item, db.find of the root object.
NextId(w) ==
    /\ Running
    /\ workers[w].pc = "loop"
    /\ LET l == workers[w]
           item == Head(l.oids)
       IN IF Load(should_interrupt)
          THEN /\ workers' = [workers EXCEPT ![w] = Fail(l, "Interrupted", "")]
               /\ interrupt_observed' = TRUE
               /\ UNCHANGED db_find_called
          ELSE IF item = IterErr
          THEN /\ workers' = [workers EXCEPT ![w] = Fail(l, "InputIteration", item)]
               /\ UNCHANGED <<db_find_called, interrupt_observed>>
          ELSE /\ db_find_called' = TRUE
               /\ UNCHANGED interrupt_observed
               /\ workers' = [workers EXCEPT ![w] =
                     IF Find(item).kind = "None" THEN AwaitLookup(Fail(l, "Find", item))
                     ELSE [l EXCEPT !.oids = Tail(@), !.id = item,
                                    !.outcome = CountInput(@),
                                    !.resolved = FALSE,
                                    !.pc = "push_root"]]
    /\ UNCHANGED find_failures
    /\ UNCHANGED <<args, call, should_interrupt, seen_objs, chunks, reducer, ret, trav_vars, aux_vars>>

\* What a step of expand::this past the top of the loop leaves alone.
Frame == <<args, call, should_interrupt, chunks, reducer, ret, interrupt_observed,
           db_find_called>>

\* push_obj_count_unique(.., &id, &obj, .., false) at the top of the inner loop
\* (or the only statement under AsIs).
PushRoot(w) ==
    /\ Running
    /\ workers[w].pc = "push_root"
    /\ LET p == PushObjCountUnique(workers[w], seen_objs, workers[w].id, FALSE)
           \* history: the Counts pushed for an input id itself
           l == IF workers[w].resolved THEN p.l
                ELSE [p.l EXCEPT !.root_counts = @ + Len(p.l.out) - Len(workers[w].out)]
       IN /\ seen_objs' = p.seen
          /\ workers' = [workers EXCEPT ![w] =
                            AwaitLookup(AfterRootPush(l, input_object_expansion,
                                                      AllowPackLookups))]
    /\ UNCHANGED find_failures
    /\ UNCHANGED <<Frame, trav_vars, aux_vars>>

\* push_obj_count_unique(.., &tree_id, &obj, .., true) for the tree of a commit.
PushTree(w) ==
    /\ Running
    /\ workers[w].pc = "push_tree"
    /\ LET p == PushObjCountUnique(workers[w], seen_objs, workers[w].tree_id, TRUE)
       IN /\ seen_objs' = p.seen
          /\ workers' = [workers EXCEPT ![w] = AwaitLookup(AfterTreePush(p.l, AllowPackLookups))]
    /\ UNCHANGED find_failures
    /\ UNCHANGED <<Frame, trav_vars, aux_vars>>

\* One parent: find the parent commit, push it, find its tree.
PushParent(w) ==
    /\ Running
    /\ workers[w].pc = "push_parent"
    /\ LET l == workers[w]
           commit_id == Head(l.parent_commit_ids)
           p == PushObjCountUnique(l, seen_objs, commit_id, TRUE)
           parent_tree_id == Find(commit_id).tree
       IN IF Find(commit_id).kind = "None"
          THEN /\ workers' = [workers EXCEPT ![w] = AwaitLookup(Fail(l, "Find", commit_id))]
               /\ UNCHANGED seen_objs
          ELSE /\ seen_objs' = p.seen
               /\ workers' = [workers EXCEPT ![w] =
                     IF parent_tree_id = "" THEN ExpectFailed(p.l)
                     ELSE IF Find(parent_tree_id).kind = "None"
                     THEN AwaitLookup(Fail(l, "Find", parent_tree_id))
                     ELSE [p.l EXCEPT !.parent_commit_ids = Tail(@),
                                      !.parent_tree_id = parent_tree_id,
                                      !.pc = "push_parent_tree"]]
    /\ UNCHANGED find_failures
    /\ UNCHANGED <<Frame, trav_vars, aux_vars>>

\* Push the parent's tree, then start the diff against it.
PushParentTree(w) ==
    /\ Running
    /\ workers[w].pc = "push_parent_tree"
    /\ LET p == PushObjCountUnique(workers[w], seen_objs, workers[w].parent_tree_id, TRUE)
       IN /\ seen_objs' = p.seen
          /\ workers' = [workers EXCEPT ![w] = AwaitLookup(StartChanges(p.l, AllowPackLookups))]
    /\ UNCHANGED find_failures
    /\ UNCHANGED <<Frame, trav_vars, aux_vars>>

\* tree::traverse::AllUnseen: visit_tree / visit_nontree of the next entry.
VisitEntry(w) ==
    /\ Running
    /\ workers[w].pc = "trav"
    /\ LET l == workers[w]
           entry == Head(l.ents)
           inserted == Inserted(seen_objs, entry.oid)
           l1 == [l EXCEPT !.ents = Tail(@)]
           l2 == IF ~inserted THEN l1
                 ELSE IF entry.mode = "Tree" THEN [l1 EXCEPT !.next = Append(@, entry.oid)]
                 ELSE [l1 EXCEPT !.non_trees = Append(@, entry.oid)]
       IN /\ seen_objs' = seen_objs \cup {entry.oid}
          /\ workers' = [workers EXCEPT ![w] = AwaitLookup(TravSettle(l2, AllowPackLookups))]
    /\ UNCHANGED find_failures
    /\ UNCHANGED <<Frame, trav_vars, aux_vars>>

\* tree::changes::AllNew: visit of the next Addition or Modification.
VisitChange(w) ==
    /\ Running
    /\ workers[w].pc = "diff"
    /\ LET l == workers[w]
           oid == Head(l.changes)
           inserted == Inserted(seen_objs, oid)
           l1 == [l EXCEPT !.changes = Tail(@),
                           !.objects = IF inserted THEN Append(@, oid) ELSE @]
       IN /\ seen_objs' = seen_objs \cup {oid}
          /\ workers' = [workers EXCEPT ![w] = AwaitLookup(DiffSettle(l1, AllowPackLookups))]
    /\ UNCHANGED find_failures
    /\ UNCHANGED <<Frame, trav_vars, aux_vars>>

\* The lookup that fails: `db.find(..)?`, or the load of a tree inside the
\* traversal or the diff, returns its error and the worker leaves the loop.
FailedLookup(w) ==
    /\ Running
    /\ workers[w].pc = "lookup"
    /\ workers' = [workers EXCEPT ![w].pc = "result"]
    /\ find_failures' = NoteFindFailure(find_failures, workers'[w])
    /\ UNCHANGED <<args, call, should_interrupt, seen_objs, chunks, reducer, ret,
                   interrupt_observed, db_find_called, trav_vars, aux_vars>>

(***************************************************************************)
(* parallel::in_parallel with reduce::Statistics (objects() only).         *)
(***************************************************************************)
\* A free worker thread receives the next chunk and calls expand::this on it,
\* also after the reduction has come to its error: a thread learns of that
\* only when it sends a result.  Threads differ in nothing but their index,
\* so of the free threads the one with the lowest index is taken as the
\* receiver.
TakeChunk(w) ==
    /\ Running
    /\ fn = "objects"
    /\ w <= thread_limit
    /\ workers[w].pc = "idle"
    /\ \A v \in 1..(w - 1) : workers[v].pc # "idle"
    /\ chunks # <<>>
    /\ workers' = [workers EXCEPT ![w] = Continue([IdleWorker EXCEPT !.oids = Head(chunks)])]
    /\ chunks' = Tail(chunks)
    /\ UNCHANGED <<args, call, should_interrupt, seen_objs, reducer, ret, interrupt_observed,
                   db_find_called, find_failures, trav_vars, aux_vars>>

\* Statistics::feed of a worker's result, in the order in which the results
\* were sent: an Ok is added to the totals and its Counts are appended; an Err
\* is what the reduction returns, and no result is received after it.  The
\* thread that sent the result waits for its next chunk.
Feed(w) ==
    /\ Running
    /\ fn = "objects"
    /\ reducer.res = "none"
    /\ workers[w].pc = "result"
    /\ workers[w].res # "Panic"
    /\ LET l == workers[w]
       IN reducer' = IF l.res = "Ok"
                     THEN [reducer EXCEPT !.counts = @ \o l.out,
                                          !.total = Aggregate(@, l.outcome)]
                     ELSE [reducer EXCEPT !.res = l.res, !.err_id = l.err_id]
    /\ workers' = [workers EXCEPT ![w] = IdleWorker]
    /\ UNCHANGED <<args, call, should_interrupt, seen_objs, chunks, ret, interrupt_observed,
                   db_find_called, find_failures, trav_vars, aux_vars>>

\* A result that comes after the error of the reduction is never fed: it was
\* sent before the receiver was dropped and the thread waits for its next
\* chunk, or the send fails and the thread leaves its loop.  A thread that
\* panicked is gone; the other threads go on.
Discard(w) ==
    /\ Running
    /\ fn = "objects"
    /\ workers[w].pc = "result"
    /\ IF workers[w].res = "Panic"
       THEN workers' = [workers EXCEPT ![w].pc = "ended"]
       ELSE /\ reducer.res # "none"
            /\ \E pc \in {"idle", "ended"} :
                  workers' = [workers EXCEPT ![w] = [IdleWorker EXCEPT !.pc = pc]]
    /\ UNCHANGED <<args, call, should_interrupt, seen_objs, chunks, reducer, ret,
                   interrupt_observed, db_find_called, find_failures, trav_vars, aux_vars>>

\* Every thread of the scope has ended: it left its loop, or it waits for a
\* chunk and there is none left.
ThreadsJoined ==
    \A w \in 1..thread_limit :
        workers[w].pc = "ended" \/ (workers[w].pc = "idle" /\ chunks = <<>>)

\* in_parallel returns once the threads are joined: the panic of a thread,
\* else the error of the reduction, else Statistics::finalize.
Finalize ==
    /\ Running
    /\ fn = "objects"
    /\ ThreadsJoined
    /\ ret' = IF \E w \in Workers : workers[w].res = "Panic"
              THEN [NoRet EXCEPT !.res = "Panic"]
              ELSE IF reducer.res # "none"
              THEN [NoRet EXCEPT !.res = reducer.res, !.err_id = reducer.err_id]
              ELSE [res |-> "Ok", err_id |-> "", counts |-> reducer.counts,
                    outcome |-> reducer.total]
    /\ UNCHANGED <<args, call, should_interrupt, seen_objs, chunks, workers, reducer,
                   interrupt_observed, db_find_called, find_failures, trav_vars, aux_vars>>

\* objects_unthreaded returns what expand::this returned.
ReturnUnthreaded ==
    /\ Running
    /\ fn = "objects_unthreaded"
    /\ workers[1].pc = "result"
    /\ LET l == workers[1]
       IN ret' = [res |-> l.res, err_id |-> l.err_id, counts |-> l.out, outcome |-> l.outcome]
    /\ UNCHANGED <<args, call, should_interrupt, seen_objs, chunks, workers, reducer,
                   interrupt_observed, db_find_called, find_failures, trav_vars, aux_vars>>

\* The caller keeps the first result and, unless it was interrupted, makes the
\* second call on the same input, with a fresh seen set and an interrupt flag
\* of its choice.
SecondCall ==
    /\ phase = "first"
    /\ ~Running
    /\ ret.res # "Interrupted"
    /\ phase' = "second"
    /\ first_ret' = ret
    /\ ret' = NoRet
    /\ fn' = scenario.fn
    /\ input_object_expansion' = scenario.second
    /\ should_interrupt' \in BOOLEAN
    /\ interrupt_on_entry' = should_interrupt'
    /\ seen_objs' = {}
    /\ db_find_called' = FALSE
    /\ find_failures' = <<>>
    /\ interrupt_observed' = FALSE
    /\ reducer' = NewReducer
    /\ IF scenario.fn = "objects"
       THEN /\ chunks' = Chunks(objects_ids, chunk_size)
            /\ workers' = [w \in Workers |-> IdleWorker]
       ELSE /\ chunks' = <<>>
            /\ workers' = Unthreaded(objects_ids)
    /\ UNCHANGED <<args, trav_vars, aux_vars>>

Next ==
    \/ Interrupt
    \/ \E w \in Workers : NextId(w)
    \/ \E w \in Workers : PushRoot(w)
    \/ \E w \in Workers : PushTree(w)
    \/ \E w \in Workers : PushParent(w)
    \/ \E w \in Workers : PushParentTree(w)
    \/ \E w \in Workers : VisitEntry(w)
    \/ \E w \in Workers : VisitChange(w)
    \/ \E w \in Workers : FailedLookup(w)
    \/ \E w \in Workers : TakeChunk(w)
    \/ \E w \in Workers : Feed(w)
    \/ \E w \in Workers : Discard(w)
    \/ Finalize
    \/ ReturnUnthreaded
    \/ SecondCall

Spec == Init /\ [][Next]_vars

\* The same calls on inputs that make lookups fail.
SpecFailures == InitFailures /\ [][Next]_vars

SpecMalformed == InitMalformed /\ [][Next]_vars

SpecMissingBlob == InitMissingBlob /\ [][Next]_vars

\* Both calls are objects_unthreaded(): no worker threads, no reducer.
NextUnthreaded ==
    \/ Interrupt
    \/ NextId(1)
    \/ PushRoot(1)
    \/ PushTree(1)
    \/ PushParent(1)
    \/ PushParentTree(1)
    \/ VisitEntry(1)
    \/ VisitChange(1)
    \/ FailedLookup(1)
    \/ ReturnUnthreaded
    \/ SecondCall

SpecUnthreaded == InitUnthreaded /\ [][NextUnthreaded]_vars

(***************************************************************************)
(* index::File::traverse_with_lookup.                                      *)
(*                                                                         *)
(* SpecTraverse : one call.  The verification closure and the traversal    *)
(* closure of parallel::join run concurrently; the traversal hands chunks  *)
(* of the sorted index entries to the worker closure through               *)
(* in_parallel_if and reduces the results with traverse::Reducer.          *)
(***************************************************************************)
MaxEntries == 3

\* What decoding and processing one entry gives: Ok, Error::PackDecode, or an
\* error returned by the caller's processor.
EntryOutcomes == {"ok", "decode_err", "processor_err"}

SafetyChecks ==
    {"All", "SkipFileChecksumVerification", "SkipFileAndObjectChecksumVerification",
     "SkipFileAndObjectChecksumVerificationAndNoAbortOnDecodeError"}

\* SafetyCheck::file_checksum
FileChecksum(c) == c = "All"

\* SafetyCheck::fatal_decode_error
FatalDecodeError(c) == c # "SkipFileAndObjectChecksumVerificationAndNoAbortOnDecodeError"

\* The entries of an index with n objects: entry i has outcome kinds[i]; the
\* index lists them by id, which is ascending or descending pack offset here.
IndexOf(kinds, ascending) ==
    [i \in 1..Len(kinds) |->
        [offset |-> IF ascending THEN i ELSE Len(kinds) + 1 - i, outcome |-> kinds[i]]]

RECURSIVE KindSeqs(_)
KindSeqs(n) ==
    IF n = 0 THEN {<<>>}
    ELSE LET S == KindSeqs(n - 1)
         IN S \cup {Append(k, x) : k \in {t \in S : Len(t) = n - 1}, x \in EntryOutcomes}

\* util::index_entries_sorted_by_offset_ascending (insertion sort on offset)
RECURSIVE InsertByOffset(_, _)
InsertByOffset(e, sorted) ==
    IF sorted = <<>> THEN <<e>>
    ELSE IF e.offset < Head(sorted).offset THEN <<e>> \o sorted
    ELSE <<Head(sorted)>> \o InsertByOffset(e, Tail(sorted))

RECURSIVE SortedByOffsetAscending(_)
SortedByOffsetAscending(entries) ==
    IF entries = <<>> THEN <<>>
    ELSE InsertByOffset(Head(entries), SortedByOffsetAscending(Tail(entries)))

\* Variant: the threads are used as soon as there is one chunk per core.
EnoughEntriesForOneChunkEach == Len(index_entries) >= chunk_size * available_cores

\* `index_entries.len() > chunk_size * available_cores`
ThereAreEnoughEntriesToProcess == Len(index_entries) > chunk_size * available_cores

\* in_parallel_if: the threads of in_parallel when there is more than one
\* thread to use and the condition holds, else the calling thread alone.
InParallel == thread_limit > 1 /\ ThereAreEnoughEntriesToProcess

Decoders == 1..(IF InParallel THEN thread_limit ELSE 1)

IdleDecoder == [pc |-> "idle", entries |-> <<>>, stats |-> <<>>, after_flag |-> 0, res |-> "none"]

NoResult == [res |-> "none", stats |-> <<>>]

\* No expansion is going on.
ExpandIdle ==
    /\ objects_ids = <<>>
    /\ scenario = [first |-> "AsIs", fn |-> "objects", second |-> "AsIs"]
    /\ diff_queues_equal_trees = FALSE
    /\ phase = "first"
    /\ fn = "objects_unthreaded"
    /\ input_object_expansion = "AsIs"
    /\ interrupt_on_entry = should_interrupt
    /\ seen_objs = {}
    /\ chunks = <<>>
    /\ workers = [w \in Workers |-> IdleWorker]
    /\ reducer = NewReducer
    /\ ret = NoRet
    /\ first_ret = NoRet
    /\ db_find_called = FALSE
    /\ find_failures = <<>>
    /\ interrupt_observed = FALSE

\* Variant: the chunks hold one entry more than chunk_size.
InputChunksOversized(entries, size) == Chunks(entries, size + 1)

\* `index_entries.chunks(chunk_size.max(chunk_size))`
InputChunks(entries, size) == Chunks(entries, IF size >= size THEN size ELSE size)

InitTraverse ==
    /\ \E kinds \in KindSeqs(MaxEntries), ascending \in BOOLEAN :
            index_entries = IndexOf(kinds, ascending)
    /\ check \in SafetyChecks
    /\ pack_checksum_ok \in BOOLEAN
    /\ should_interrupt \in BOOLEAN
    /\ chunk_size \in 1..MaxChunkSize
    /\ thread_limit \in 1..MaxThreads
    /\ available_cores = thread_limit
    /\ verify_result = "none"
    /\ traversal_result = NoResult
    /\ input_chunks = InputChunks(SortedByOffsetAscending(index_entries), chunk_size)
    /\ decoders = [d \in Workers |-> IdleDecoder]
    /\ trav_reducer = [entries_seen |-> 0, stats |-> <<>>, res |-> "none"]
    /\ progress_info = 0
    /\ processed = <<>>
    /\ decoded = <<>>
    /\ tret = NoResult
    /\ is_interrupted \in BOOLEAN
    /\ was_interrupted = is_interrupted
    /\ ExpandIdle
    /\ AuxIdle

\* Variant: a failed verification leaves the flag alone.
InterruptOnErrNever(res, flag) == flag

\* Variant: the flag is set to whether the verification failed.
InterruptOnErrElseClear(res, flag) == res # "Ok"

\* `if res.is_err() { should_interrupt.store(true, Ordering::SeqCst); }`
InterruptOnErr(res, flag) == IF res # "Ok" THEN TRUE ELSE flag

\* possibly_verify as far as its outcome goes: without file checksums the
\* recorded index checksum is returned; otherwise the checksums are computed,
\* which fails on a mismatch and may fail when the flag is found set.
PossiblyVerify(c, ok, flag) ==
    IF ~FileChecksum(c) THEN {"Ok"}
    ELSE (IF ok THEN {"Ok"} ELSE {"Mismatch"}) \cup (IF flag THEN {"Interrupted"} ELSE {})

\* The first closure of parallel::join.
Verify ==
    /\ verify_result = "none"
    /\ \E res \in PossiblyVerify(check, pack_checksum_ok, should_interrupt) :
          /\ verify_result' = res
          /\ should_interrupt' = InterruptOnErr(res, should_interrupt)
    /\ UNCHANGED <<aux_vars, expand_vars, index_entries, check, pack_checksum_ok,
                   was_interrupted, available_cores,
                   traversal_result, input_chunks, decoders, trav_reducer, progress_info,
                   processed, decoded, tret, is_interrupted>>

Traversing == traversal_result.res = "none"

\* A free thread takes the next chunk and enters the worker closure, also
\* after the reduction has come to its error: a thread learns of that only
\* when it sends a result.
TakeEntries(d) ==
    /\ Traversing
    /\ d \in Decoders
    /\ decoders[d].pc = "idle"
    /\ \A v \in 1..(d - 1) : decoders[v].pc # "idle"
    /\ input_chunks # <<>>
    /\ decoders' = [decoders EXCEPT ![d] = [IdleDecoder EXCEPT !.pc = "decode",
                                                              !.entries = Head(input_chunks)]]
    /\ input_chunks' = Tail(input_chunks)
    /\ UNCHANGED <<aux_vars, expand_vars, should_interrupt, index_entries, check, pack_checksum_ok,
                   was_interrupted,
                   available_cores, verify_result, traversal_result, trav_reducer,
                   progress_info, processed, decoded, tret, is_interrupted>>

\* Variant: a thread waits at the top of the loop while the flag is set.
DecodeWaitsWhileInterrupted(flag) == ~flag

\* The worker closure takes no lock, waits for nothing and never reads
\* should_interrupt: an iteration of its loop can always run.
DecodeProceeds(flag) == TRUE

\* Variant: under the non-fatal policy every error is skipped.
MatchResultSkipsAnyError(outcome, c) ==
    IF outcome # "ok" /\ ~FatalDecodeError(c) THEN "continue"
    ELSE IF outcome = "ok" THEN "push" ELSE "return_err"

\* Variant: no decode error is skipped.
MatchResultNeverSkips(outcome, c) ==
    IF outcome = "ok" THEN "push" ELSE "return_err"

\* Variant: every decode error is skipped.
MatchResultAlwaysSkips(outcome, c) ==
    IF outcome = "decode_err" THEN "continue"
    ELSE IF outcome = "ok" THEN "push" ELSE "return_err"

\* `match result { Err(Error::PackDecode{..}) if !check.fatal_decode_error() =>
\* continue, res => res }?; stats.push(stat)`
MatchResult(outcome, c) ==
    IF outcome = "decode_err" /\ ~FatalDecodeError(c) THEN "continue"
    ELSE IF outcome = "ok" THEN "push" ELSE "return_err"

\* The verification failed on the checksums and has set the flag.
FlagSetByVerification == verify_result = "Mismatch" /\ should_interrupt

\* History: one more entry of the chunk taken up, counted when the flag was
\* already set by the verification.
TakenUp(n) == IF FlagSetByVerification THEN n + 1 ELSE n

\* One iteration of `for index_entry in entries.iter()`, or `Ok(stats)` after
\* the last one.  decode_and_process_entry calls the processor unless the
\* decode failed.
DecodeEntry(d) ==
    /\ Traversing
    /\ decoders[d].pc = "decode"
    /\ DecodeProceeds(should_interrupt)
    /\ LET l == decoders[d]
           e == Head(l.entries)
           m == MatchResult(e.outcome, check)
       IN IF l.entries = <<>>
          THEN /\ decoders' = [decoders EXCEPT ![d] = [l EXCEPT !.pc = "result", !.res = "Ok"]]
               /\ UNCHANGED <<progress_info, processed, decoded>>
          ELSE /\ decoded' = Append(decoded, e.offset)
               /\ processed' = IF e.outcome = "decode_err" THEN processed
                               ELSE Append(processed, e.offset)
               /\ progress_info' = IF m = "continue" THEN progress_info + 1 ELSE progress_info
               /\ decoders' = [decoders EXCEPT ![d] =
                      CASE m = "continue" -> [l EXCEPT !.entries = Tail(@),
                                                       !.after_flag = TakenUp(@)]
                        [] m = "push" -> [l EXCEPT !.entries = Tail(@),
                                                   !.after_flag = TakenUp(@),
                                                   !.stats = Append(@, e.offset)]
                        [] OTHER -> [IdleDecoder EXCEPT !.pc = "result",
                                        !.res = IF e.outcome = "decode_err" THEN "PackDecode"
                                                ELSE "Processor"]]
    /\ UNCHANGED <<aux_vars, expand_vars, should_interrupt, index_entries, check, pack_checksum_ok,
                   was_interrupted,
                   available_cores, verify_result, traversal_result, input_chunks,
                   trav_reducer, tret, is_interrupted>>

\* What Reducer::feed makes of a result: an Err is returned (a decode error
\* under the non-fatal policy is only reported); the statistics of an Ok are
\* added, and then the interrupt flag is looked at.
FeedResult(l, flag) ==
    IF l.res = "PackDecode" /\ ~FatalDecodeError(check) THEN "none"
    ELSE IF l.res # "Ok" THEN l.res
    ELSE IF flag THEN "Interrupted"
    ELSE "none"

\* Reducer::feed of a chunk's result, in the order in which the results were
\* sent.  The calling thread alone ends the traversal with the first Err;
\* with threads the Err is what the reduction returns, no result is received
\* after it, and the thread that sent the result waits for its next chunk.
FeedStats(d) ==
    /\ Traversing
    /\ trav_reducer.res = "none"
    /\ decoders[d].pc = "result"
    /\ LET l == decoders[d]
           res == FeedResult(l, should_interrupt)
       IN /\ progress_info' = IF l.res = "PackDecode" /\ ~FatalDecodeError(check)
                              THEN progress_info + 1 ELSE progress_info
          /\ trav_reducer' =
                IF l.res = "Ok"
                THEN [entries_seen |-> trav_reducer.entries_seen + Len(l.stats),
                      stats |-> trav_reducer.stats \o l.stats,
                      res |-> res]
                ELSE [trav_reducer EXCEPT !.res = res]
          /\ decoders' = [decoders EXCEPT ![d] = IdleDecoder]
          /\ traversal_result' = IF res # "none" /\ ~InParallel
                                 THEN [res |-> res, stats |-> <<>>]
                                 ELSE traversal_result
    /\ UNCHANGED <<aux_vars, expand_vars, should_interrupt, index_entries, check, pack_checksum_ok,
                   was_interrupted,
                   available_cores, verify_result, input_chunks, processed, decoded, tret, is_interrupted>>

\* A result that comes after the error of the reduction is never fed: it was
\* sent before the receiver was dropped and the thread waits for its next
\* chunk, or the send fails and the thread leaves its loop.
DiscardStats(d) ==
    /\ Traversing
    /\ trav_reducer.res # "none"
    /\ decoders[d].pc = "result"
    /\ \E pc \in {"idle", "ended"} :
          decoders' = [decoders EXCEPT ![d] = [IdleDecoder EXCEPT !.pc = pc]]
    /\ UNCHANGED <<aux_vars, expand_vars, should_interrupt, index_entries, check, pack_checksum_ok,
                   was_interrupted,
                   available_cores, verify_result, traversal_result, input_chunks,
                   trav_reducer, progress_info, processed, decoded, tret, is_interrupted>>

\* Every thread of the scope has ended: it left its loop, or it waits for a
\* chunk and there is none left.
DecodersJoined ==
    \A d \in Decoders :
        decoders[d].pc = "ended" \/ (decoders[d].pc = "idle" /\ input_chunks = <<>>)

\* in_parallel_if returns once the threads are joined: the error of the
\* reduction, else Reducer::finalize.
FinalizeStats ==
    /\ Traversing
    /\ DecodersJoined
    /\ traversal_result' = IF trav_reducer.res # "none"
                           THEN [res |-> trav_reducer.res, stats |-> <<>>]
                           ELSE [res |-> "Ok", stats |-> trav_reducer.stats]
    /\ UNCHANGED <<aux_vars, expand_vars, should_interrupt, index_entries, check, pack_checksum_ok,
                   was_interrupted,
                   available_cores, verify_result, input_chunks, decoders, trav_reducer,
                   progress_info, processed, decoded, tret, is_interrupted>>

\* Variant: the call goes on as soon as the verification has returned.
VerifyJoined == verify_result # "none"

\* parallel::join returns when both of its closures have returned.
BothJoined == verify_result # "none" /\ ~Traversing

\* ResetOnDrop::drop: the flag of the process is put back to what it was when
\* the guard was made.
ResetOnDrop(was) == was

\* After parallel::join: `let id = verify_result?; let res = traversal_result?;`
\* and the drop of `_reset_interrupt` at the return.
Join ==
    /\ tret.res = "none"
    /\ BothJoined
    /\ tret' = IF verify_result # "Ok" THEN [res |-> verify_result, stats |-> <<>>]
               ELSE traversal_result
    /\ is_interrupted' = ResetOnDrop(was_interrupted)
    /\ UNCHANGED <<aux_vars, expand_vars, should_interrupt, index_entries, check, pack_checksum_ok,
                   was_interrupted,
                   available_cores, verify_result, traversal_result, input_chunks, decoders,
                   trav_reducer, progress_info, processed, decoded>>

\* The caller holds the Arc<AtomicBool> as well and may store true into it at
\* any moment of the call.
InterruptTraversal ==
    /\ tret.res = "none"
    /\ ~should_interrupt
    /\ should_interrupt' = TRUE
    /\ UNCHANGED <<aux_vars, expand_vars, trav_vars>>

\* git_features::interrupt::trigger(), called by another part of the process
\* while the call runs.
Trigger ==
    /\ tret.res = "none"
    /\ ~is_interrupted
    /\ is_interrupted' = TRUE
    /\ UNCHANGED <<aux_vars, expand_vars, should_interrupt, index_entries, check, pack_checksum_ok,
                   was_interrupted, available_cores, verify_result, traversal_result, input_chunks,
                   decoders, trav_reducer, progress_info, processed, decoded, tret>>

NextTraverse ==
    \/ InterruptTraversal
    \/ Trigger
    \/ Verify
    \/ \E d \in Workers : TakeEntries(d)
    \/ \E d \in Workers : DecodeEntry(d)
    \/ \E d \in Workers : FeedStats(d)
    \/ \E d \in Workers : DiscardStats(d)
    \/ FinalizeStats
    \/ Join

SpecTraverse == InitTraverse /\ [][NextTraverse]_vars

\* The two closures of parallel::join and the threads of in_parallel are
\* operating-system threads that block on nothing but each other's results:
\* while a step of the call is possible, one is eventually taken.
\* Calls that verify the checksums (SafetyCheck::All) of an index that lists
\* its entries by ascending offset.
InitTraverseVerifying ==
    /\ InitTraverse
    /\ check = "All"
    /\ index_entries = SortedByOffsetAscending(index_entries)

SpecTraverseFair == InitTraverseVerifying /\ [][NextTraverse]_vars /\ WF_vars(NextTraverse)

\* Neither count::objects nor traverse_with_lookup is going on.
PackIdle ==
    /\ should_interrupt = FALSE
    /\ chunk_size = 1
    /\ thread_limit = 1
    /\ ExpandIdle
    /\ TraverseIdle

(***************************************************************************)
(* gix_dir::walk and assure_no_symlink_in_root.                            *)
(*                                                                         *)
(* SpecWalk : one call of walk().  A path is the sequence of its           *)
(* components as Path::components() yields them: names and "..".           *)
(***************************************************************************)
MaxPathLen == 3

Names == {"a", "b"}
ParentDir == ".."
CurDir == "."

\* Variant: the prefix is stripped by length, whatever its components are.
RECURSIVE StripPrefixByLength(_, _)
StripPrefixByLength(path, base) ==
    IF base = <<>> THEN [ok |-> TRUE, rest |-> path]
    ELSE IF path = <<>> THEN [ok |-> FALSE, rest |-> <<>>]
    ELSE StripPrefixByLength(Tail(path), Tail(base))

\* Path::strip_prefix: the components of base are matched one by one against
\* the leading components of path.
RECURSIVE StripPrefix(_, _)
StripPrefix(path, base) ==
    IF base = <<>> THEN [ok |-> TRUE, rest |-> path]
    ELSE IF path = <<>> \/ Head(path) # Head(base) THEN [ok |-> FALSE, rest |-> <<>>]
    ELSE StripPrefix(Tail(path), Tail(base))

\* PathBuf::pop: the last component goes; a trailing "." is no component of
\* its own, so popping "a/." gives "".
PathPop(path) ==
    LET c == IF Len(path) > 1 /\ path[Len(path)] = CurDir THEN SubSeq(path, 1, Len(path) - 1)
             ELSE path
    IN IF c = <<>> THEN <<>> ELSE SubSeq(c, 1, Len(c) - 1)

RECURSIVE PopTimes(_, _)
PopTimes(path, n) == IF n = 0 THEN path ELSE PopTimes(PathPop(path), n - 1)

\* gix_path::normalize(path, ""), component by component: ".." pops what was
\* collected and fails when there is nothing to pop; an empty result is ".".
RECURSIVE NormalizeFrom(_, _)
NormalizeFrom(components, acc) ==
    IF components = <<>> THEN [ok |-> TRUE, path |-> IF acc = <<>> THEN <<CurDir>> ELSE acc]
    ELSE IF Head(components) = ParentDir
    THEN IF acc = <<>> THEN [ok |-> FALSE, path |-> <<>>]
         ELSE NormalizeFrom(Tail(components), SubSeq(acc, 1, Len(acc) - 1))
    ELSE NormalizeFrom(Tail(components), Append(acc, Head(components)))

\* gix_path::normalize: a path without ".." is returned as it is.
Normalize(path) ==
    IF ParentDir \notin Range(path) THEN [ok |-> TRUE, path |-> path]
    ELSE NormalizeFrom(path, <<>>)

\* Path::symlink_metadata: the kind of the path itself; "wt/." is the
\* directory wt leads to.
SymlinkMetadata(path) ==
    IF \E k \in 1..Len(path) : SubSeq(path, 1, k) \in missing THEN "missing"
    ELSE IF path # <<>> /\ path[Len(path)] = CurDir THEN "dir"
    ELSE IF path \in symlinks THEN "symlink"
    ELSE "dir"

\* The paths walk() can ask the file system about, and the worktree root.
PathsOfInterest(r, w) ==
    LET s == StripPrefix(r, w)
        n == Normalize(s.rest)
    IN (IF s.ok /\ n.ok THEN {w \o SubSeq(n.path, 1, k) : k \in 1..Len(n.path)} ELSE {})
          \cup (IF w # <<>> THEN {w} ELSE {})

InitWalk ==
    /\ root \in SeqsUpTo(MaxPathLen, Names \cup {ParentDir})
    /\ worktree_root \in SeqsUpTo(1, Names)
    /\ symlinks \in SUBSET PathsOfInterest(root, worktree_root)
    /\ missing \in {{}} \cup {{p} : p \in PathsOfInterest(root, worktree_root) \ {worktree_root}}
    /\ walk_pc = "strip_prefix"
    /\ current = <<>>
    /\ worktree_relative = <<>>
    /\ idx = 0
    /\ walk_ret = NoWalkRet
    /\ symlink_metadata_calls = <<>>
    /\ for_each_calls = 0
    /\ PackIdle
    /\ NewFile
    /\ DescribeIdle

\* Variant: the index counts from one.
ComponentIndexFromOne(i) == i + 1

\* `for (idx, component) in worktree_relative.components().enumerate()`:
\* the index reported is that of enumerate().
ComponentIndex(i) == i

\* assure_no_symlink_in_root up to the loop: strip_prefix and normalize.
StripAndNormalize ==
    /\ walk_pc = "strip_prefix"
    /\ current' = worktree_root
    /\ LET s == StripPrefix(root, worktree_root)
           n == Normalize(s.rest)
       IN IF ~s.ok
          THEN /\ walk_ret' = [NoWalkRet EXCEPT !.res = "RootNotInWorktree"]
               /\ walk_pc' = "done"
               /\ UNCHANGED worktree_relative
          ELSE IF ~n.ok
          THEN /\ walk_ret' = [NoWalkRet EXCEPT !.res = "NormalizeRoot"]
               /\ walk_pc' = "done"
               /\ UNCHANGED worktree_relative
          ELSE /\ worktree_relative' = n.path
               /\ walk_pc' = "components"
               /\ UNCHANGED walk_ret
    /\ UNCHANGED <<root, worktree_root, symlinks, missing, idx, symlink_metadata_calls,
                   for_each_calls, not_walk_vars>>

\* One iteration of the loop over the components.
CheckComponent ==
    /\ walk_pc = "components"
    /\ idx < Len(worktree_relative)
    /\ LET pushed == Append(current, worktree_relative[idx + 1])
           meta == SymlinkMetadata(pushed)
       IN /\ current' = pushed
          /\ symlink_metadata_calls' = Append(symlink_metadata_calls, pushed)
          /\ IF meta = "missing"
             THEN /\ walk_ret' = [NoWalkRet EXCEPT !.res = "SymlinkMetadata"]
                  /\ walk_pc' = "done"
                  /\ UNCHANGED idx
             ELSE IF meta = "symlink"
             THEN /\ walk_ret' = [res |-> "SymlinkInRoot", component_index |-> ComponentIndex(idx)]
                  /\ walk_pc' = "done"
                  /\ UNCHANGED idx
             ELSE /\ idx' = idx + 1
                  /\ UNCHANGED <<walk_ret, walk_pc>>
    /\ UNCHANGED <<root, worktree_root, symlinks, missing, worktree_relative, for_each_calls,
                   not_walk_vars>>

\* After the loop: one pop per component, then `Ok((current, worktree_relative))`.
PopComponents ==
    /\ walk_pc = "components"
    /\ idx = Len(worktree_relative)
    /\ current' = PopTimes(current, Len(worktree_relative))
    /\ walk_pc' = "walk"
    /\ UNCHANGED <<root, worktree_root, symlinks, missing, worktree_relative, idx, walk_ret,
                   symlink_metadata_calls, for_each_calls, not_walk_vars>>

\* walk() after assure_no_symlink_in_root returned Ok: the debug assertion
\* (builds with debug assertions only), then todo!().
AssertAndTodo ==
    /\ walk_pc = "walk"
    /\ \E panic \in (IF current = worktree_root THEN {"todo"} ELSE {"debug_assert", "todo"}) :
          walk_ret' = [NoWalkRet EXCEPT !.res = panic]
    /\ walk_pc' = "done"
    /\ UNCHANGED <<root, worktree_root, symlinks, missing, current, worktree_relative, idx,
                   symlink_metadata_calls, for_each_calls, not_walk_vars>>

NextWalk ==
    \/ StripAndNormalize
    \/ CheckComponent
    \/ PopComponents
    \/ AssertAndTodo

SpecWalk == InitWalk /\ [][NextWalk]_vars

(***************************************************************************)
(* git_config::File: the section operations.                               *)
(*                                                                         *)
(* SpecConfig : a File made by File::new() and any sequence of calls of    *)
(* push_section, new_section, remove_section, rename_section, section_mut, *)
(* set_raw_value and set_raw_multi_value on it, and of push on the section *)
(* that push_section, new_section and section_mut return.  A panic ends    *)
(* the run.                                                                *)
(***************************************************************************)
MaxSections == 2
MaxBodyEntries == 1
SectionNames == {"a", "b"}
SubsectionNames == {None, "s"}
Keys == {"k"}
Values == {"v", "w"}

\* A body is the list of its events.
Event(kind, data) == [kind |-> kind, data |-> data]

\* MutableSection::push(key, value): the events of one entry at the end of
\* the body, as the example of new_section prints them ("  a=b\n").
MutableSection_push(body, key, value) ==
    body \o <<Event("Whitespace", "  "), Event("Key", key), Event("KeyValueSeparator", "="),
              Event("Value", value), Event("Newline", "\n")>>

\* The body handed to push_section: one entry pushed to SectionBody::new().
\* The one new_section makes: SectionBody::new() with one newline event.
PushedBody == MutableSection_push(<<>>, "k", "v")
NewSectionBody == <<Event("Newline", "\n")>>

\* The entries of a body: its Key events.
Entries(body) == {i \in DOMAIN body : body[i].kind = "Key"}

Header(name, subsection_name) == [name |-> name, subsection_name |-> subsection_name]

Terminal(ids) == [kind |-> "Terminal", ids |-> ids, map |-> EmptyMap]
NonTerminal(map) == [kind |-> "NonTerminal", ids |-> <<>>, map |-> map]

\* HashMap::insert and HashMap::remove.
MapInsert(map, k, v) == [x \in DOMAIN map \cup {k} |-> IF x = k THEN v ELSE map[x]]
MapRemove(map, k) == [x \in DOMAIN map \ {k} |-> map[x]]

\* Position of the first node of that kind (the `for node in lookup` loops
\* break at the first one), 0 when there is none.
FirstNode(nodes, kind) ==
    LET found == {i \in DOMAIN nodes : nodes[i].kind = kind}
    IN IF found = {} THEN 0 ELSE CHOOSE i \in found : \A j \in found : i <= j

\* The lookup tree after push_section_internal registered new_section_id.
LookupTreeWith(tree, header, new_section_id) ==
    LET lookup == IF header.name \in DOMAIN tree THEN tree[header.name] ELSE <<>>
        kind == IF header.subsection_name # None THEN "NonTerminal" ELSE "Terminal"
        i == FirstNode(lookup, kind)
        subsection == lookup[i].map
        ids == IF header.subsection_name \in DOMAIN subsection
               THEN subsection[header.subsection_name] ELSE <<>>
        nodes ==
            IF header.subsection_name # None
            THEN IF i # 0
                 THEN [lookup EXCEPT ![i].map =
                           MapInsert(subsection, header.subsection_name, Append(ids, new_section_id))]
                 ELSE Append(lookup, NonTerminal(MapInsert(EmptyMap, header.subsection_name,
                                                           <<new_section_id>>)))
            ELSE IF i # 0
                 THEN [lookup EXCEPT ![i].ids = Append(@, new_section_id)]
                 ELSE Append(lookup, Terminal(<<new_section_id>>))
    IN MapInsert(tree, header.name, nodes)

\* push_section_internal, but for the value it returns.
push_section_internal(header, section) ==
    LET new_section_id == section_id_counter
    IN /\ section_headers' = MapInsert(section_headers, new_section_id, header)
       /\ sections' = MapInsert(sections, new_section_id, section)
       /\ section_lookup_tree' = LookupTreeWith(section_lookup_tree, header, new_section_id)
       /\ section_order' = Append(section_order, new_section_id)
       /\ section_id_counter' = section_id_counter + 1

\* section_ids_by_name_and_subname: Ok(ids) or the lookup error.
section_ids_by_name_and_subname(tree, section_name, subsection_name) ==
    IF section_name \notin DOMAIN tree
    THEN [ok |-> FALSE, err |-> "SectionMissing", ids |-> <<>>]
    ELSE LET section_ids == tree[section_name]
             i == FirstNode(section_ids,
                            IF subsection_name # None THEN "NonTerminal" ELSE "Terminal")
         IN IF i = 0
            THEN [ok |-> FALSE, err |-> "SubSectionMissing", ids |-> <<>>]
            ELSE IF subsection_name = None
            THEN [ok |-> TRUE, err |-> "", ids |-> section_ids[i].ids]
            ELSE IF subsection_name \in DOMAIN section_ids[i].map
            THEN [ok |-> TRUE, err |-> "", ids |-> section_ids[i].map[subsection_name]]
            ELSE [ok |-> FALSE, err |-> "SubSectionMissing", ids |-> <<>>]

\* The event loop of raw_value_mut over one body, from event i on: the size
\* and the index (from zero) of the last entry of the key.
RECURSIVE ScanValue(_, _, _, _)
ScanValue(events, key, i, st) ==
    IF i > Len(events)
    THEN st
    ELSE LET event == events[i]
         IN ScanValue(events, key, i + 1,
                IF event.kind = "Key" /\ event.data = key
                THEN [size |-> 1, index |-> i - 1, found_key |-> TRUE]
                ELSE IF event.kind \in {"Newline", "Whitespace", "ValueNotDone"} /\ st.found_key
                THEN [st EXCEPT !.size = @ + 1]
                ELSE IF event.kind \in {"ValueDone", "Value"} /\ st.found_key
                THEN [st EXCEPT !.size = @ + 1, !.found_key = FALSE]
                ELSE st)

NoValue == [res |-> "KeyMissing", section_id |-> 0, index |-> 0, size |-> 0]

\* The loop of raw_value_mut over the first n section ids, last one first.
RECURSIVE ValueOfLastSection(_, _, _, _)
ValueOfLastSection(bodies, section_ids, n, key) ==
    IF n = 0
    THEN NoValue
    ELSE IF section_ids[n] \notin DOMAIN bodies
    THEN [NoValue EXCEPT !.res = "panic"]
    ELSE LET st == ScanValue(bodies[section_ids[n]], key, 1,
                             [size |-> 0, index |-> 0, found_key |-> FALSE])
         IN IF st.size = 0
            THEN ValueOfLastSection(bodies, section_ids, n - 1, key)
            ELSE [res |-> "Ok", section_id |-> section_ids[n],
                  index |-> st.index, size |-> st.size]

\* raw_value_mut: the place of the value, the lookup error, or the panic.
raw_value_mut(tree, bodies, section_name, subsection_name, key) ==
    LET found == section_ids_by_name_and_subname(tree, section_name, subsection_name)
    IN IF ~found.ok
       THEN [NoValue EXCEPT !.res = found.err]
       ELSE ValueOfLastSection(bodies, found.ids, Len(found.ids), key)

\* MutableValue::set_bytes: the events index ..= index + size give way to
\* the key, the separator and the new value.
set_bytes(body, index, size, key, new_value) ==
    SubSeq(body, 1, index)
        \o <<Event("Key", key), Event("KeyValueSeparator", "="), Event("Value", new_value)>>
        \o SubSeq(body, index + size + 2, Len(body))

\* The event loop of raw_multi_value_mut over one body, from event i on: the
\* positions of the values that end an entry of the key.
RECURSIVE ScanMultiValue(_, _, _, _)
ScanMultiValue(events, key, i, found_key) ==
    IF i > Len(events)
    THEN {}
    ELSE LET event == events[i]
         IN IF event.kind = "Key" /\ event.data = key
            THEN ScanMultiValue(events, key, i + 1, TRUE)
            ELSE IF event.kind \in {"Value", "ValueDone"} /\ found_key
            THEN {i} \cup ScanMultiValue(events, key, i + 1, FALSE)
            ELSE ScanMultiValue(events, key, i + 1, found_key)

\* raw_multi_value_mut: the entries by section id, the lookup error, or
\* the panic.
raw_multi_value_mut(tree, bodies, section_name, subsection_name, key) ==
    LET found == section_ids_by_name_and_subname(tree, section_name, subsection_name)
        entries == [id \in Range(found.ids) \cap DOMAIN bodies |->
                       ScanMultiValue(bodies[id], key, 1, FALSE)]
    IN IF ~found.ok
       THEN [res |-> found.err, entries |-> EmptyMap]
       ELSE IF \E i \in DOMAIN found.ids : found.ids[i] \notin DOMAIN bodies
       THEN [res |-> "panic", entries |-> EmptyMap]
       ELSE IF \A id \in DOMAIN entries : entries[id] = {}
       THEN [res |-> "KeyMissing", entries |-> EmptyMap]
       ELSE [res |-> "Ok", entries |-> entries]

\* MutableMultiValue::set_values with an iterator that yields new_value for
\* every entry: each of the values becomes new_value.
set_values(bodies, entries, new_value) ==
    [id \in DOMAIN bodies |->
        IF id \in DOMAIN entries
        THEN [i \in DOMAIN bodies[id] |->
                 IF i \in entries[id] THEN Event("Value", new_value) ELSE bodies[id][i]]
        ELSE bodies[id]]

\* Position of id in the section order, 0 when it is not there.
Position(order, id) ==
    LET found == {i \in DOMAIN order : order[i] = id}
    IN IF found = {} THEN 0 ELSE CHOOSE i \in found : \A j \in found : i <= j

\* VecDeque::remove(index), index counted from one here.
RemoveAt(order, i) == SubSeq(order, 1, i - 1) \o SubSeq(order, i + 1, Len(order))

\* Vec::pop on a list that is not empty: the last id.
Pop(ids) == ids[Len(ids)]

InitConfig ==
    /\ NewFile
    /\ WalkIdle
    /\ PackIdle
    /\ DescribeIdle

NotPanicked == config_ret.res # "panic"

push_section(section_name, subsection_name) ==
    /\ NotPanicked
    /\ section_id_counter < MaxSections
    /\ push_section_internal(Header(section_name, subsection_name), PushedBody)
    /\ config_ret' = [op |-> "push_section", name |-> section_name,
                      subsection_name |-> subsection_name, res |-> "section", body |-> PushedBody]
    /\ UNCHANGED not_config_vars

new_section(section_name, subsection_name) ==
    /\ NotPanicked
    /\ section_id_counter < MaxSections
    /\ push_section_internal(Header(section_name, subsection_name), NewSectionBody)
    /\ config_ret' = [op |-> "new_section", name |-> section_name,
                      subsection_name |-> subsection_name, res |-> "section",
                      body |-> NewSectionBody]
    /\ UNCHANGED not_config_vars

remove_section(section_name, subsection_name) ==
    /\ NotPanicked
    /\ LET found == section_ids_by_name_and_subname(section_lookup_tree, section_name,
                                                    subsection_name)
           id == Pop(found.ids)
           called == [op |-> "remove_section", name |-> section_name,
                      subsection_name |-> subsection_name, res |-> "None", body |-> <<>>]
       IN IF ~found.ok \/ found.ids = <<>>
          THEN /\ config_ret' = called
               /\ UNCHANGED <<section_order, sections>>
          ELSE IF Position(section_order, id) = 0
          THEN /\ config_ret' = [called EXCEPT !.res = "panic"]
               /\ UNCHANGED <<section_order, sections>>
          ELSE /\ section_order' = RemoveAt(section_order, Position(section_order, id))
               /\ sections' = MapRemove(sections, id)
               /\ config_ret' = IF id \in DOMAIN sections
                                THEN [called EXCEPT !.res = "Some", !.body = sections[id]]
                                ELSE called
    /\ UNCHANGED <<section_lookup_tree, section_headers, section_id_counter,
                   not_config_vars>>

rename_section(section_name, subsection_name, new_section_name, new_subsection_name) ==
    /\ NotPanicked
    /\ LET found == section_ids_by_name_and_subname(section_lookup_tree, section_name,
                                                    subsection_name)
           id == found.ids[Len(found.ids)]
           called == [op |-> "rename_section", name |-> section_name,
                      subsection_name |-> subsection_name, res |-> "Ok", body |-> <<>>]
       IN IF ~found.ok
          THEN /\ config_ret' = [called EXCEPT !.res = found.err]
               /\ UNCHANGED section_headers
          ELSE IF found.ids = <<>> \/ id \notin DOMAIN section_headers
          THEN /\ config_ret' = [called EXCEPT !.res = "panic"]
               /\ UNCHANGED section_headers
          ELSE /\ section_headers' = [section_headers EXCEPT
                                          ![id] = Header(new_section_name, new_subsection_name)]
               /\ config_ret' = called
    /\ UNCHANGED <<section_lookup_tree, sections, section_order, section_id_counter,
                   not_config_vars>>

\* push on the MutableSection that the push_section or new_section before
\* it returned: the section with the id given last.
returned_section_push(key, value) ==
    /\ NotPanicked
    /\ config_ret.op \in {"push_section", "new_section"}
    /\ LET id == section_id_counter - 1
       IN /\ Cardinality(Entries(sections[id])) < MaxBodyEntries
          /\ sections' = [sections EXCEPT ![id] = MutableSection_push(@, key, value)]
    /\ config_ret' = [op |-> "push", name |-> config_ret.name,
                      subsection_name |-> config_ret.subsection_name, res |-> "Ok",
                      body |-> <<>>]
    /\ UNCHANGED <<section_lookup_tree, section_headers, section_order, section_id_counter,
                   not_config_vars>>

\* section_mut, and push on the MutableSection it returns.
section_mut(section_name, subsection_name, key, value) ==
    /\ NotPanicked
    /\ LET found == section_ids_by_name_and_subname(section_lookup_tree, section_name,
                                                    subsection_name)
           id == found.ids[Len(found.ids)]
           called == [op |-> "section_mut", name |-> section_name,
                      subsection_name |-> subsection_name, res |-> "Ok", body |-> <<>>]
       IN IF ~found.ok
          THEN /\ config_ret' = [called EXCEPT !.res = found.err]
               /\ UNCHANGED sections
          ELSE IF found.ids = <<>> \/ id \notin DOMAIN sections
          THEN /\ config_ret' = [called EXCEPT !.res = "panic"]
               /\ UNCHANGED sections
          ELSE /\ Cardinality(Entries(sections[id])) < MaxBodyEntries
               /\ sections' = [sections EXCEPT ![id] = MutableSection_push(@, key, value)]
               /\ config_ret' = called
    /\ UNCHANGED <<section_lookup_tree, section_headers, section_order, section_id_counter,
                   not_config_vars>>

set_raw_value(section_name, subsection_name, key, new_value) ==
    /\ NotPanicked
    /\ LET entry == raw_value_mut(section_lookup_tree, sections, section_name,
                                  subsection_name, key)
       IN /\ sections' = IF entry.res = "Ok"
                         THEN [sections EXCEPT ![entry.section_id] =
                                   set_bytes(@, entry.index, entry.size, key, new_value)]
                         ELSE sections
          /\ config_ret' = [op |-> "set_raw_value", name |-> section_name,
                            subsection_name |-> subsection_name, res |-> entry.res,
                            body |-> <<>>]
    /\ UNCHANGED <<section_lookup_tree, section_headers, section_order, section_id_counter,
                   not_config_vars>>

set_raw_multi_value(section_name, subsection_name, key, new_value) ==
    /\ NotPanicked
    /\ LET v == raw_multi_value_mut(section_lookup_tree, sections, section_name,
                                    subsection_name, key)
       IN /\ sections' = IF v.res = "Ok"
                         THEN set_values(sections, v.entries, new_value)
                         ELSE sections
          /\ config_ret' = [op |-> "set_raw_multi_value", name |-> section_name,
                            subsection_name |-> subsection_name, res |-> v.res,
                            body |-> <<>>]
    /\ UNCHANGED <<section_lookup_tree, section_headers, section_order, section_id_counter,
                   not_config_vars>>

NextConfig ==
    \/ \E n \in SectionNames, s \in SubsectionNames : push_section(n, s)
    \/ \E k \in Keys, v \in Values : returned_section_push(k, v)
    \/ \E n \in SectionNames, s \in SubsectionNames, k \in Keys, v \in Values :
          section_mut(n, s, k, v)
    \/ \E n \in SectionNames, s \in SubsectionNames, k \in Keys, v \in Values :
          set_raw_value(n, s, k, v)
    \/ \E n \in SectionNames, s \in SubsectionNames, k \in Keys, v \in Values :
          set_raw_multi_value(n, s, k, v)
    \/ \E n \in SectionNames, s \in SubsectionNames : new_section(n, s)
    \/ \E n \in SectionNames, s \in SubsectionNames : remove_section(n, s)
    \/ \E n \in SectionNames, s \in SubsectionNames,
          nn \in SectionNames, ns \in SubsectionNames : rename_section(n, s, nn, ns)

SpecConfig == InitConfig /\ [][NextConfig]_vars

(***************************************************************************)
(* git_revision::describe.                                                 *)
(*                                                                         *)
(* SpecDescribe : one call of describe() on commit 1 of a commit graph.    *)
(* The graphs are the small ones (every commit has its parents among the   *)
(* next two commits) and the chain of MAX_CANDIDATES + 2 commits of which  *)
(* all but the first are named.                                            *)
(***************************************************************************)
\* `const MAX_CANDIDATES: usize = size_of::<Flags>() * 8`, Flags being u32.
MAX_CANDIDATES == 32
MaxCommits == 3
MaxCandidatesOption == 2

StartCommit == 1

Min(a, b) == IF a <= b THEN a ELSE b

\* `1 << k` on Flags overflows when k is not below the width of Flags: a
\* panic in a build with overflow checks, else the shift amount is masked.
ShiftOverflows(k) == k >= MAX_CANDIDATES
ShiftLeftOne(k) == {k % MAX_CANDIDATES}

\* `(flags & bit) == bit`
HasBit(flags, bit) == bit \subseteq flags

\* Variant: the option is taken as it is.
Uncapped(n) == n

\* `max_candidates.min(MAX_CANDIDATES)`
Capped(n) == Min(n, MAX_CANDIDATES)

\* `parent.committer().map(..).unwrap_or_default()`
CommitterTime(c) == IF commit_state[c] = "corrupt" THEN 0 ELSE commit_date[c]

\* `parents.sort_by(|a, b| a.1.cmp(&b.1).reverse())`: stable, newest first.
RECURSIVE InsertByDate(_, _)
InsertByDate(sorted, p) ==
    IF sorted = <<>> THEN <<p>>
    ELSE IF CommitterTime(Head(sorted)) >= CommitterTime(p)
    THEN <<Head(sorted)>> \o InsertByDate(Tail(sorted), p)
    ELSE <<p>> \o sorted

RECURSIVE SortedByDate(_)
SortedByDate(ps) ==
    IF ps = <<>> THEN <<>>
    ELSE InsertByDate(SortedByDate(SubSeq(ps, 1, Len(ps) - 1)), ps[Len(ps)])

\* Variant: a parent is looked up and collected whether seen before or not.
RECURSIVE TrackParentsAgain(_, _, _, _)
TrackParentsAgain(tokens, commit_flags, seen_so_far, parents) ==
    IF tokens = <<>> THEN [err |-> "", seen |-> seen_so_far, parents |-> parents]
    ELSE LET parent_id == Head(tokens)
         IN IF commit_state[parent_id] = "missing"
            THEN [err |-> "Find", seen |-> seen_so_far, parents |-> parents]
            ELSE TrackParentsAgain(Tail(tokens), commit_flags,
                                   MapInsert(seen_so_far, parent_id, commit_flags),
                                   Append(parents, parent_id))

\* The loop over the tokens of a commit: the parents not seen before are
\* looked up and collected, the others get the flags of the commit.
RECURSIVE TrackParents(_, _, _, _)
TrackParents(tokens, commit_flags, seen_so_far, parents) ==
    IF tokens = <<>> THEN [err |-> "", seen |-> seen_so_far, parents |-> parents]
    ELSE LET parent_id == Head(tokens)
         IN IF parent_id \in DOMAIN seen_so_far
            THEN TrackParents(Tail(tokens), commit_flags,
                              [seen_so_far EXCEPT ![parent_id] = @ \cup commit_flags], parents)
            ELSE IF commit_state[parent_id] = "missing"
            THEN [err |-> "Find", seen |-> seen_so_far, parents |-> parents]
            ELSE TrackParents(Tail(tokens), commit_flags,
                              MapInsert(seen_so_far, parent_id, commit_flags),
                              Append(parents, parent_id))

parents_by_date_onto_queue_and_track_names(commit, commit_flags, q, seen_so_far) ==
    LET failed == [err |-> "", oid |-> commit, queue |-> q, seen |-> seen_so_far, pushed |-> <<>>]
        t == TrackParents(commit_parents[commit], commit_flags, seen_so_far, <<>>)
    IN IF commit_state[commit] = "missing" THEN [failed EXCEPT !.err = "Find"]
       ELSE IF commit_state[commit] = "corrupt" THEN [failed EXCEPT !.err = "Decode", !.oid = 0]
       ELSE IF t.err # "" THEN [failed EXCEPT !.err = t.err, !.seen = t.seen]
       ELSE [err |-> "", oid |-> 0, queue |-> q \o SortedByDate(t.parents), seen |-> t.seen,
             pushed |-> SortedByDate(t.parents)]

\* `candidates.sort_by(..)`: by commits_in_its_future, then by order.
CandidateBefore(a, b) ==
    \/ a.commits_in_its_future < b.commits_in_its_future
    \/ a.commits_in_its_future = b.commits_in_its_future /\ a.order <= b.order

RECURSIVE InsertCandidate(_, _)
InsertCandidate(sorted, c) ==
    IF sorted = <<>> THEN <<c>>
    ELSE IF CandidateBefore(Head(sorted), c)
    THEN <<Head(sorted)>> \o InsertCandidate(Tail(sorted), c)
    ELSE <<c>> \o sorted

RECURSIVE SortedCandidates(_)
SortedCandidates(cs) ==
    IF cs = <<>> THEN <<>>
    ELSE InsertCandidate(SortedCandidates(SubSeq(cs, 1, Len(cs) - 1)), cs[Len(cs)])

\* The parents a commit of a small graph may have.
ParentChoices(c, n) ==
    {ps \in {<<>>, <<c + 1>>, <<c + 2>>, <<c + 1, c + 2>>} : \A i \in DOMAIN ps : ps[i] <= n}

InitDescribeSmall ==
    /\ commit_parents \in {g \in [1..MaxCommits -> UNION {ParentChoices(c, MaxCommits) : c \in 1..MaxCommits}] :
                              \A c \in 1..MaxCommits : g[c] \in ParentChoices(c, MaxCommits)}
    /\ commit_date \in {[c \in 1..MaxCommits |-> 0], [c \in 1..MaxCommits |-> c]}
    /\ commit_state \in {[c \in 1..MaxCommits |-> "ok"]}
                        \cup {[c \in 1..MaxCommits |-> IF c = bad THEN how ELSE "ok"] :
                                 bad \in 1..MaxCommits, how \in {"missing", "corrupt"}}
    /\ name_by_oid \in {[c \in named |-> c] : named \in SUBSET (1..MaxCommits)}
    /\ max_candidates_option \in 0..MaxCandidatesOption
    /\ fallback_to_oid \in BOOLEAN

InitDescribeChain ==
    /\ commit_parents = [c \in 1..(MAX_CANDIDATES + 2) |->
                            IF c < MAX_CANDIDATES + 2 THEN <<c + 1>> ELSE <<>>]
    /\ commit_date = [c \in 1..(MAX_CANDIDATES + 2) |-> 0]
    /\ commit_state = [c \in 1..(MAX_CANDIDATES + 2) |-> "ok"]
    /\ name_by_oid = [c \in 2..(MAX_CANDIDATES + 2) |-> c]
    /\ max_candidates_option \in {MAX_CANDIDATES, MAX_CANDIDATES + 1}
    /\ fallback_to_oid = FALSE

InitDescribe ==
    /\ InitDescribeSmall \/ InitDescribeChain
    /\ describe_pc = "start"
    /\ DescribeNotEntered
    /\ PackIdle
    /\ WalkIdle
    /\ NewFile

\* describe() up to the search loop.
Enter ==
    /\ describe_pc = "start"
    /\ IF StartCommit \in DOMAIN name_by_oid
       THEN /\ describe_ret' = [NoDescribeRet EXCEPT !.res = "Some", !.id = StartCommit,
                                                     !.name = name_by_oid[StartCommit]]
            /\ describe_pc' = "done"
            /\ UNCHANGED <<max_candidates, queue, seen>>
       ELSE /\ max_candidates' = Capped(max_candidates_option)
            /\ queue' = <<StartCommit>>
            /\ seen' = MapInsert(EmptyMap, StartCommit, {})
            /\ describe_pc' = "search"
            /\ UNCHANGED describe_ret
    /\ UNCHANGED <<describe_args, candidates, seen_commits, gave_up_on_commit, enqueued,
                   not_describe_vars>>

Failed(r) == [NoDescribeRet EXCEPT !.res = r.err, !.oid = r.oid]

\* One iteration of the search loop.
SearchStep ==
    /\ describe_pc = "search"
    /\ queue # <<>>
    /\ LET commit == Head(queue)
           named == commit \in DOMAIN name_by_oid
           tracked == named /\ Len(candidates) < max_candidates
           k == Len(candidates)
       IN /\ seen_commits' = seen_commits + 1
          /\ IF named /\ ~tracked
             THEN /\ gave_up_on_commit' = commit
                  /\ describe_pc' = "after_search"
                  /\ queue' = Tail(queue)
                  /\ UNCHANGED <<candidates, seen, enqueued, describe_ret>>
             ELSE \E overflow_checks \in (IF tracked /\ ShiftOverflows(k) THEN BOOLEAN ELSE {FALSE}) :
                  IF overflow_checks
                  THEN /\ describe_ret' = [NoDescribeRet EXCEPT !.res = "panic"]
                       /\ describe_pc' = "done"
                       /\ queue' = Tail(queue)
                       /\ UNCHANGED <<candidates, seen, enqueued, gave_up_on_commit>>
                  ELSE LET identity_bit == ShiftLeftOne(k)
                           pushed == IF tracked
                                     THEN Append(candidates,
                                                 [name |-> name_by_oid[commit],
                                                  commits_in_its_future |-> seen_commits,
                                                  identity_bit |-> identity_bit,
                                                  order |-> k])
                                     ELSE candidates
                           marked == IF tracked
                                     THEN [seen EXCEPT ![commit] = @ \cup identity_bit]
                                     ELSE seen
                           flags == marked[commit]
                           r == parents_by_date_onto_queue_and_track_names(
                                    commit, flags, Tail(queue), marked)
                       IN /\ candidates' =
                                 [i \in DOMAIN pushed |->
                                     IF HasBit(flags, pushed[i].identity_bit) THEN pushed[i]
                                     ELSE [pushed[i] EXCEPT !.commits_in_its_future = @ + 1]]
                          /\ queue' = r.queue
                          /\ seen' = r.seen
                          /\ enqueued' = enqueued \o r.pushed
                          /\ IF r.err # ""
                             THEN /\ describe_ret' = Failed(r)
                                  /\ describe_pc' = "done"
                             ELSE UNCHANGED <<describe_ret, describe_pc>>
                          /\ UNCHANGED gave_up_on_commit
    /\ UNCHANGED <<describe_args, max_candidates, not_describe_vars>>

\* After the search loop: no candidate, or the candidates sorted and the
\* commit given up on back at the front of the queue.
AfterSearch ==
    /\ \/ describe_pc = "after_search"
       \/ describe_pc = "search" /\ queue = <<>>
    /\ IF candidates = <<>>
       THEN /\ describe_ret' = IF fallback_to_oid
                               THEN [NoDescribeRet EXCEPT !.res = "Some", !.id = StartCommit]
                               ELSE [NoDescribeRet EXCEPT !.res = "None"]
            /\ describe_pc' = "done"
            /\ UNCHANGED <<candidates, queue>>
       ELSE /\ candidates' = SortedCandidates(candidates)
            /\ queue' = IF gave_up_on_commit # 0 THEN <<gave_up_on_commit>> \o queue ELSE queue
            /\ describe_pc' = "finish"
            /\ UNCHANGED describe_ret
    /\ UNCHANGED <<describe_args, max_candidates, seen_commits, gave_up_on_commit, seen, enqueued,
                   not_describe_vars>>

\* One iteration of the loop of finish_depth_computation.
FinishStep ==
    /\ describe_pc = "finish"
    /\ queue # <<>>
    /\ LET commit == Head(queue)
           flags == seen[commit]
           best_candidate == candidates[1]
           r == parents_by_date_onto_queue_and_track_names(commit, flags, Tail(queue), seen)
       IN IF /\ HasBit(flags, best_candidate.identity_bit)
             /\ \A i \in DOMAIN Tail(queue) :
                   HasBit(seen[Tail(queue)[i]], best_candidate.identity_bit)
          THEN /\ describe_pc' = "return"
               /\ queue' = Tail(queue)
               /\ UNCHANGED <<candidates, seen, enqueued, describe_ret>>
          ELSE /\ candidates' = IF HasBit(flags, best_candidate.identity_bit) THEN candidates
                                ELSE [candidates EXCEPT ![1].commits_in_its_future = @ + 1]
               /\ queue' = r.queue
               /\ seen' = r.seen
               /\ enqueued' = enqueued \o r.pushed
               /\ IF r.err # ""
                  THEN /\ describe_ret' = Failed(r)
                       /\ describe_pc' = "done"
                  ELSE UNCHANGED <<describe_ret, describe_pc>>
    /\ UNCHANGED <<describe_args, max_candidates, seen_commits, gave_up_on_commit,
                   not_describe_vars>>

\* `Ok(candidates.into_iter().next().map(..))`
Return ==
    /\ \/ describe_pc = "return"
       \/ describe_pc = "finish" /\ queue = <<>>
    /\ describe_ret' = [NoDescribeRet EXCEPT !.res = "Some", !.id = StartCommit,
                                              !.name = candidates[1].name,
                                              !.depth = candidates[1].commits_in_its_future]
    /\ describe_pc' = "done"
    /\ UNCHANGED <<describe_args, max_candidates, queue, candidates, seen_commits,
                   gave_up_on_commit, seen, enqueued, not_describe_vars>>

NextDescribe ==
    \/ Enter
    \/ SearchStep
    \/ AfterSearch
    \/ FinishStep
    \/ Return

SpecDescribe == InitDescribe /\ [][NextDescribe]_vars

\* The calls on a small graph whose commits can all be found.
InitDescribeFound ==
    /\ InitDescribe
    /\ Len(commit_parents) = MaxCommits
    /\ \A c \in DOMAIN commit_state : commit_state[c] # "missing"

\* describe() runs on the caller's thread and waits for nothing: while it has
\* not returned, its next step is taken.
SpecDescribeFair == InitDescribeFound /\ [][NextDescribe]_vars /\ WF_vars(NextDescribe)

(***************************************************************************)
(* Properties of count::objects.                                           *)
(***************************************************************************)
NoDup(counts) == \A i, j \in 1..Len(counts) : i # j => counts[i].id # counts[j].id

\* Both calls returned Ok.
BothOk == phase = "second" /\ ret.res = "Ok" /\ first_ret.res = "Ok"

\* The second call was objects() with at least two threads and two chunks.
Parallel == fn = "objects" /\ thread_limit >= 2 /\ Len(objects_ids) > chunk_size

\* What an object refers to: a commit its tree, a tag its target, a tree the
\* objects of its entries.
Children(id) ==
    LET o == Find(id)
    IN CASE o.kind = "Commit" -> {o.tree}
         [] o.kind = "Tag" -> {o.target}
         [] o.kind = "Tree" -> {o.entries[i].oid : i \in 1..Len(o.entries)}
         [] OTHER -> {}

RECURSIVE Closure(_)
Closure(S) ==
    LET N == S \cup UNION {Children(id) : id \in S}
    IN IF N = S THEN S ELSE Closure(N)

ParentlessCommits ==
    {id \in DOMAIN Db : Db[id].kind = "Commit" /\ Db[id].parents = <<>> /\ ~Db[id].decode_err}

\* C1: whatever the input (repeated ids included), the policy, the number of
\* workers and the interleaving, the Count list a call returns holds no id twice.
C1_NoDuplicateIds == ret.res = "Ok" => NoDup(ret.counts)

\* C1 witness: objects() returned for an input that repeats an id, expanded by
\* two workers at once.
C1_Witness ==
    /\ ret.res = "Ok" /\ Parallel
    /\ Len(objects_ids) = 2 /\ objects_ids[1] = objects_ids[2]
    /\ input_object_expansion = "TreeContents"
    /\ Len(ret.counts) > 2

\* C2 (as claimed): objects() returns the same set of ids as
\* objects_unthreaded() on the same input with the same policy.
C2_SameSetAsUnthreaded ==
    (BothOk /\ fn = "objects") => Ids(ret.counts) = Ids(first_ret.counts)

\* C3 (as claimed): at successful return the ids of the Counts are exactly the
\* ids inserted into the seen set during the call.
C3_CountsAreSeen == ret.res = "Ok" => Ids(ret.counts) = seen_objs

\* C4 (as claimed): the totals of objects() equal those of the single-threaded
\* run on the same input with the same policy.
C4_SameTotals == (BothOk /\ fn = "objects") => ret.outcome = first_ret.outcome

\* C5: AsIs with N pairwise distinct ids the store can find gives exactly N
\* Counts, one per id, and expanded_objects = 0 (unless the call is interrupted).
C5_AsIsCountsInput ==
    (/\ ~Running
     /\ input_object_expansion = "AsIs"
     /\ Cardinality(Range(objects_ids)) = Len(objects_ids)
     /\ Range(objects_ids) \subseteq DOMAIN Db)
        => /\ ret.res \in {"Ok", "Interrupted"}
           /\ ret.res = "Ok" => /\ Len(ret.counts) = Len(objects_ids)
                                /\ Ids(ret.counts) = Range(objects_ids)
                                /\ ret.outcome.expanded_objects = 0

\* C5 witness: two distinct ids counted as they are by objects().
C5_Witness ==
    /\ ret.res = "Ok" /\ fn = "objects"
    /\ input_object_expansion = "AsIs"
    /\ Len(objects_ids) = 2 /\ objects_ids[1] # objects_ids[2]
    /\ Len(ret.counts) = 2

\* C6: under TreeContents the Counts are exactly the objects reachable from the
\* input (a commit, its tree, every tree and blob below it), each once.
C6_TreeContentsComplete ==
    (ret.res = "Ok" /\ input_object_expansion = "TreeContents")
        => /\ Ids(ret.counts) = Closure(Range(objects_ids))
           /\ Len(ret.counts) = Cardinality(Closure(Range(objects_ids)))

\* C6 witness: objects() on commit c0 (tree r0 = {t1 = {b1}, b2}) with two
\* workers returned its five objects.
C6_Witness ==
    /\ ret.res = "Ok" /\ Parallel
    /\ input_object_expansion = "TreeContents"
    /\ objects_ids = <<"c0", "c0">>
    /\ Ids(ret.counts) = {"c0", "r0", "t1", "b1", "b2"}

\* C7: for commits without parents TreeAdditionsComparedToAncestor returns the
\* same set of ids as TreeContents.
C7_NoParentsLikeTreeContents ==
    (/\ BothOk
     /\ scenario.first = "TreeContents"
     /\ scenario.second = "TreeAdditionsComparedToAncestor"
     /\ Range(objects_ids) \subseteq ParentlessCommits)
        => Ids(ret.counts) = Ids(first_ret.counts)

\* C7 witness: both policies ran on two parentless commits whose trees overlap.
C7_Witness ==
    /\ BothOk
    /\ scenario.first = "TreeContents"
    /\ scenario.second = "TreeAdditionsComparedToAncestor"
    /\ objects_ids = <<"c0", "c2">>
    /\ Len(ret.counts) = 9

\* C8: with the flag set on entry and a non-empty input the call returns
\* Interrupted, no Counts, and has made no store lookup.
C8_InterruptedOnEntry ==
    (~Running /\ interrupt_on_entry /\ objects_ids # <<>>)
        => /\ ret.res = "Interrupted"
           /\ ret.counts = <<>>
           /\ ~db_find_called

\* C8 witness: objects() was entered with the flag set and has returned.
C8_Witness ==
    /\ ~Running /\ fn = "objects"
    /\ interrupt_on_entry /\ Len(objects_ids) = 2
    /\ ret.res = "Interrupted"

\* C9: once a per-id check of some worker of objects() found the flag set, the
\* call does not return Ok, whatever chunks were completed before.
C9_NoPartialSuccess ==
    (~Running /\ fn = "objects" /\ interrupt_observed)
        => ret.res # "Ok" /\ ret.counts = <<>>

\* C9 witness: the reducer held the Counts of a completed chunk when another
\* chunk was interrupted, and the call returned Interrupted.
C9_Witness ==
    /\ ~Running /\ fn = "objects"
    /\ interrupt_observed
    /\ reducer.counts # <<>>
    /\ ret.res = "Interrupted"

\* The locals of a worker that returned Error::InputIteration.
InputIterationResult ==
    [IdleWorker EXCEPT !.pc = "result", !.res = "InputIteration", !.err_id = IterErr]

\* C15: a worker that gets an error as its next item (the flag being unset)
\* returns Error::InputIteration with that error and nothing else: its Counts
\* and the rest of its chunk are dropped, the seen set is not touched and the
\* store is not asked.  A call whose input holds an error never returns Ok,
\* and a call that returns Error::InputIteration returns no Counts.
C15_InputIterationError ==
    /\ [](/\ \A w \in Workers : workers[w].res = "InputIteration" => workers[w] = InputIterationResult
          /\ (ret.res # "none" /\ IterErr \in Range(objects_ids)) => (ret.res # "Ok" /\ ret.counts = <<>>)
          /\ ret.res = "InputIteration" => (ret.err_id = IterErr /\ ret.counts = <<>>))
    /\ [][\A w \in Workers :
            (/\ Running /\ ret' = ret
             /\ workers[w].pc = "loop"
             /\ ~should_interrupt
             /\ Head(workers[w].oids) = IterErr
             /\ workers'[w] # workers[w])
                => /\ workers'[w] = InputIterationResult
                   /\ UNCHANGED <<seen_objs, db_find_called, find_failures>>]_vars

\* C15 witness: the second item of a chunk of two was an error; the commit
\* before it had been expanded, and objects() returned Error::InputIteration.
C15_Witness ==
    /\ fn = "objects"
    /\ objects_ids = <<"c0", IterErr>>
    /\ chunk_size = 2
    /\ ret.res = "InputIteration"
    /\ "r0" \in seen_objs

\* The ids that trees list as subtrees: what a traversal or a diff loads.
SubtreeIds ==
    UNION {{Db[t].entries[i].oid : i \in {j \in 1..Len(Db[t].entries) : Db[t].entries[j].mode = "Tree"}}
              : t \in DOMAIN Db}

\* The running call had a lookup fail and has returned.
ReturnedAfterFindFailure == ret.res # "none" /\ find_failures # <<>>

\* The commits whose header does not parse after the tree.
CorruptCommits == {id \in DOMAIN Db : Db[id].decode_err}

\* The ids that counted trees list as entries that are no trees: what
\* id_to_count makes a Count of without asking the store for the object.
LeavesOf(ids) ==
    UNION {{Db[t].entries[i].oid : i \in {j \in 1..Len(Db[t].entries) : Db[t].entries[j].mode # "Tree"}}
              : t \in {u \in ids \cap DOMAIN Db : Db[u].kind = "Tree"}}

\* C16 as stated: after a failed lookup the call returns the find error with
\* the id of a failed lookup, no id failed twice, and a commit that fails to
\* decode gives no other error.
C16_FindErrorOncePerObject ==
    /\ ReturnedAfterFindFailure =>
          /\ ret.res = "Find"
          /\ ret.err_id \in Range(find_failures)
          /\ \A i, j \in 1..Len(find_failures) : i # j => find_failures[i] # find_failures[j]
    /\ ret.res # "CommitDecode"

\* C16: a failed lookup is the last step of its expand::this invocation, so
\* there are no more failed lookups than invocations (chunks handed out) and
\* none is repeated by the same invocation; the call then returns an error
\* and no Counts.  objects_unthreaded() returns the error of its one failed
\* lookup; objects() returns the error of the chunk that is fed to the
\* reducer first.  The error carries the id of the failed lookup:
\* Error::FindExisting for a root, a tag's target, a commit's tree, a parent or
\* a parent's tree, Error::TreeTraverse or Error::TreeChanges for a subtree.
\* A commit whose header does not parse ends its invocation under
\* TreeAdditionsComparedToAncestor with Error::CommitDecode, which carries no
\* id, and a call that got such a commit does not return Ok; the other
\* policies do not read the header beyond the tree.  A call that returns Ok
\* has found every object it counted, but for entries of counted trees that
\* are no trees, and the tree or target of every commit or tag it counted
\* under a tree policy.
C16_FindFailureFailsCall ==
    /\ find_failures # <<>> =>
          /\ Len(find_failures) <= (IF fn = "objects"
                                    THEN Len(Chunks(objects_ids, chunk_size)) - Len(chunks)
                                    ELSE 1)
          /\ Range(find_failures) \cap DOMAIN Db = {}
          /\ ret.res # "Ok"
    /\ \A w \in Workers : (workers[w].pc = "result" /\ workers[w].res \in FindErrors) =>
          /\ workers[w] = [IdleWorker EXCEPT !.pc = "result", !.res = workers[w].res,
                                             !.err_id = workers[w].err_id]
          /\ workers[w].err_id \in Range(find_failures)
          /\ workers[w].res = "Find" <=> workers[w].err_id \notin SubtreeIds
    /\ \A w \in Workers : workers[w].res = "CommitDecode" =>
          /\ workers[w] = [IdleWorker EXCEPT !.pc = "result", !.res = "CommitDecode"]
          /\ input_object_expansion = "TreeAdditionsComparedToAncestor"
          /\ seen_objs \cap CorruptCommits # {}
    /\ ReturnedAfterFindFailure =>
          /\ ret.counts = <<>>
          /\ ret.res \in FindErrors =>
                /\ ret.err_id \in Range(find_failures)
                /\ ret.res = "Find" <=> ret.err_id \notin SubtreeIds
          /\ fn = "objects_unthreaded" =>
                (ret.res \in FindErrors /\ ret.err_id = find_failures[1])
    /\ ret.res = "CommitDecode" =>
          /\ ret.counts = <<>> /\ ret.err_id = ""
          /\ input_object_expansion = "TreeAdditionsComparedToAncestor"
          /\ seen_objs \cap CorruptCommits # {}
    /\ (/\ ret.res # "none"
        /\ input_object_expansion = "TreeAdditionsComparedToAncestor"
        /\ Range(objects_ids) \cap CorruptCommits # {}) => ret.res # "Ok"
    /\ (ret.res = "Ok" /\ input_object_expansion # "TreeAdditionsComparedToAncestor")
          => find_failures = <<>> /\ \A w \in Workers : workers[w].res # "CommitDecode"
    /\ ret.res = "Ok" =>
          \A id \in Ids(ret.counts) :
              /\ id \in DOMAIN Db \/ id \in LeavesOf(Ids(ret.counts))
              /\ (input_object_expansion # "AsIs" /\ Find(id).kind \in {"Commit", "Tag"})
                    => Children(id) \subseteq DOMAIN Db

\* C16 witness: two workers of objects() each had a lookup fail, one for the
\* missing tree of a commit and one for a missing subtree, and the call
\* returned the traversal error with the id of the subtree.
C16_Witness ==
    /\ fn = "objects"
    /\ Range(find_failures) = {"x", "y"}
    /\ ret.res = "TreeTraverse"
    /\ ret.err_id = "y"

(***************************************************************************)
(* Properties of traverse_with_lookup.                                     *)
(***************************************************************************)
\* C10: when the verification fails, the shared flag is true from then on, in
\* particular when the call returns, and the call returns the verification
\* error (whatever the traversal returned).
C10_VerifyFailureInterrupts ==
    (verify_result \notin {"none", "Ok"})
        => /\ should_interrupt
           /\ tret.res # "none" => tret.res = verify_result

\* C10 witness: the call returned a checksum mismatch although the flag was
\* not set when Verify ran, while the traversal itself failed differently.
C10_Witness ==
    /\ tret.res = "Mismatch"
    /\ traversal_result.res \in {"Processor", "Ok"}
    /\ Len(index_entries) = MaxEntries

\* The entries in the order the traversal closure chunks them.
SortedEntries == SortedByOffsetAscending(index_entries)

\* The pack offsets of the entries whose decode-and-process outcome is in S.
OffsetsWith(S) == {index_entries[i].offset : i \in {j \in 1..Len(index_entries) :
                                                       index_entries[j].outcome \in S}}

\* a and b hold the same items the same number of times.
SameItems(a, b) ==
    \A x \in Range(a) \cup Range(b) :
        Cardinality({i \in 1..Len(a) : a[i] = x}) = Cardinality({i \in 1..Len(b) : b[i] = x})

VerifyFailed == verify_result \notin {"none", "Ok"}

\* C11: once the verification has failed, the call returns an error, and a
\* thread that is inside the worker closure at that time leaves it: nothing
\* waits forever and the join is passed.
C11_VerifyFailureReturnsError ==
    /\ VerifyFailed ~> (tret.res \notin {"none", "Ok"})
    /\ \A d \in Workers : (VerifyFailed /\ decoders[d].pc = "decode") ~> (decoders[d].pc # "decode")

\* C11 witness: the verification has failed while two threads are inside the
\* worker closure with entries still to decode, and the call has not returned.
C11_Witness ==
    /\ verify_result = "Mismatch"
    /\ tret.res = "none"
    /\ \A d \in 1..2 : decoders[d].pc = "decode" /\ decoders[d].entries # <<>>

\* C12: when decode errors are not fatal, no worker and no call ends with a
\* pack-decode error; a call whose traversal returns Ok has decoded every
\* entry once, has sent one info message per failed decode, has called the
\* processor on exactly the entries that decoded, and reports statistics for
\* exactly those.
C12_NonFatalDecodeSkip ==
    ~FatalDecodeError(check) =>
        /\ traversal_result.res # "PackDecode"
        /\ \A d \in Workers : decoders[d].res # "PackDecode"
        /\ traversal_result.res = "Ok" =>
              /\ Range(traversal_result.stats) = OffsetsWith({"ok"})
              /\ Len(traversal_result.stats) = Cardinality(OffsetsWith({"ok"}))
              /\ SameItems(processed, traversal_result.stats)
              /\ Range(decoded) = OffsetsWith(EntryOutcomes)
              /\ Len(decoded) = Len(index_entries)
              /\ progress_info = Cardinality(OffsetsWith({"decode_err"}))

\* C12 witness: the first entry of a chunk of two failed to decode, there was
\* another chunk, and the call returned Ok with the statistics of the two
\* other entries.
C12_Witness ==
    /\ ~FatalDecodeError(check)
    /\ chunk_size = 2
    /\ Len(index_entries) = 3
    /\ SortedEntries[1].outcome = "decode_err"
    /\ tret.res = "Ok"
    /\ Len(tret.stats) = 2
    /\ progress_info = 1

\* C13: when decode errors are fatal, no entry that follows a failed decode
\* in its chunk is ever decoded or handed to the processor, nothing is
\* skipped, and once a decode has failed neither the traversal nor the call
\* returns Ok.
C13_FatalDecodeAbortsChunk ==
    FatalDecodeError(check) =>
        /\ LET cs == Chunks(SortedEntries, chunk_size)
           IN \A c \in 1..Len(cs) : \A i, j \in 1..Len(cs[c]) :
                 (i < j /\ cs[c][i].outcome = "decode_err")
                     => /\ cs[c][j].offset \notin Range(decoded)
                        /\ cs[c][j].offset \notin Range(processed)
        /\ progress_info = 0
        /\ (Range(decoded) \cap OffsetsWith({"decode_err"}) # {})
              => /\ traversal_result.res # "Ok"
                 /\ tret.res # "Ok"
                 /\ \A d \in Workers : decoders[d].pc = "decode" =>
                       \A i \in 1..Len(decoders[d].entries) :
                           decoders[d].entries[i].offset \notin Range(decoded)

\* C13 witness: the first entry of a chunk of two failed to decode under a
\* policy without checksum verification, the second one was never decoded,
\* and the call returned the pack-decode error.
C13_Witness ==
    /\ check = "SkipFileChecksumVerification"
    /\ chunk_size = 2
    /\ Len(index_entries) >= 2
    /\ SortedEntries[1].outcome = "decode_err"
    /\ SortedEntries[2].outcome = "ok"
    /\ tret.res = "PackDecode"
    /\ SortedEntries[1].offset \in Range(decoded)
    /\ SortedEntries[2].offset \notin Range(decoded)

\* The worker closure run on one chunk from start to end: its result, its
\* statistics and the entries it handed to the processor.
RECURSIVE WorkerClosure(_, _, _, _)
WorkerClosure(entries, c, stats, calls) ==
    IF entries = <<>> THEN [res |-> "Ok", stats |-> stats, calls |-> calls]
    ELSE LET e == Head(entries)
             m == MatchResult(e.outcome, c)
             calls1 == IF e.outcome = "decode_err" THEN calls ELSE Append(calls, e.offset)
         IN CASE m = "continue" -> WorkerClosure(Tail(entries), c, stats, calls1)
              [] m = "push" -> WorkerClosure(Tail(entries), c, Append(stats, e.offset), calls1)
              [] OTHER -> [res |-> IF e.outcome = "decode_err" THEN "PackDecode" ELSE "Processor",
                           stats |-> <<>>, calls |-> calls1]

\* The chunks run one after the other on one thread while the flag stays
\* unset: the first failing chunk ends the call.
RECURSIVE InSerial(_, _, _, _)
InSerial(cs, c, stats, calls) ==
    IF cs = <<>> THEN [res |-> "Ok", stats |-> stats, calls |-> calls]
    ELSE LET r == WorkerClosure(Head(cs), c, <<>>, calls)
         IN IF r.res # "Ok" THEN [res |-> r.res, stats |-> <<>>, calls |-> r.calls]
            ELSE InSerial(Tail(cs), c, stats \o r.stats, r.calls)

\* What one thread alone gives on this pack and index.
Fallback == InSerial(Chunks(SortedEntries, chunk_size), check, <<>>, <<>>)

\* The traversal closure has returned.
TraversalDone == traversal_result.res # "none"

\* The traversal closure has returned and the flag was never set.
TraversalDoneUninterrupted == TraversalDone /\ ~should_interrupt

\* a is a prefix of b.
IsPrefix(a, b) == Len(a) <= Len(b) /\ a = SubSeq(b, 1, Len(a))

\* The number of entries is <= chunk_size * available_cores.
FewEntries == Len(index_entries) <= chunk_size * available_cores

\* The worker closure runs on the calling thread alone: no other thread ever
\* holds a chunk, the entries are worked through in the order of one thread
\* alone, and the first error fed to the reducer ends the traversal at once.
OnCallingThreadAlone ==
    /\ \A d \in Workers : d > 1 => decoders[d] = IdleDecoder
    /\ IsPrefix(processed, Fallback.calls)
    /\ trav_reducer.res # "none" => traversal_result.res = trav_reducer.res

\* The worker closure runs on the threads of in_parallel: the traversal
\* returns only when every thread has ended.
OnThreads == TraversalDone => DecodersJoined

\* C14 as stated: the calling thread alone runs the worker closure exactly
\* when there are no more than chunk_size * available_cores entries, and
\* whichever path is taken, the traversal gives the result, the statistics
\* and the processor calls of one thread alone.
C14_SameAsFallback ==
    /\ IF FewEntries THEN OnCallingThreadAlone ELSE OnThreads
    /\ TraversalDoneUninterrupted =>
          /\ traversal_result.res = Fallback.res
          /\ SameItems(traversal_result.stats, Fallback.stats)
          /\ SameItems(processed, Fallback.calls)

\* C14: the calling thread alone runs the worker closure exactly when there
\* are no more than chunk_size * available_cores entries or no more than one
\* thread to use; it then gives exactly what one thread alone gives, up to
\* the chunk at which it finds the flag set.  On either path a traversal
\* returns Ok only if no chunk fails for one thread alone, and then with the
\* same statistics and the same processor calls up to order; it returns Ok
\* whenever no chunk fails and the flag is never set; a traversal in which a
\* chunk fails does not return Ok, and the error it returns is that of an
\* entry it decoded, or the interrupted error with the flag set.
C14_FallbackWhenFewEntries ==
    /\ IF FewEntries \/ thread_limit <= 1 THEN OnCallingThreadAlone ELSE OnThreads
    /\ (FewEntries \/ thread_limit <= 1) =>
          /\ TraversalDoneUninterrupted =>
                /\ traversal_result = [res |-> Fallback.res, stats |-> Fallback.stats]
                /\ processed = Fallback.calls
          /\ traversal_result.res \in {"PackDecode", "Processor"} =>
                /\ traversal_result.res = Fallback.res
                /\ processed = Fallback.calls
    /\ TraversalDone =>
          /\ traversal_result.res = "Ok" =>
                /\ Fallback.res = "Ok"
                /\ SameItems(traversal_result.stats, Fallback.stats)
                /\ SameItems(processed, Fallback.calls)
          /\ (Fallback.res = "Ok" /\ ~should_interrupt) => traversal_result.res = "Ok"
          /\ traversal_result.res \in {"PackDecode", "Processor"} =>
                /\ traversal_result.stats = <<>>
                /\ \E i \in 1..Len(index_entries) :
                      /\ index_entries[i].offset \in Range(decoded)
                      /\ index_entries[i].outcome =
                            (IF traversal_result.res = "PackDecode" THEN "decode_err"
                             ELSE "processor_err")
          /\ traversal_result.res = "Interrupted" =>
                (should_interrupt /\ traversal_result.stats = <<>>)

\* C14 witness: more entries than chunk_size * available_cores, two threads
\* have run the worker closure, and the traversal returned Ok with the
\* statistics in another order than one thread alone gives them.
C14_Witness ==
    /\ ~FewEntries
    /\ thread_limit = 2
    /\ TraversalDoneUninterrupted
    /\ traversal_result.res = "Ok"
    /\ traversal_result.stats # Fallback.stats
    /\ Len(traversal_result.stats) = MaxEntries

(***************************************************************************)
(* Properties of gix_dir::walk.                                            *)
(***************************************************************************)
\* worktree_root is a component-wise prefix of root.
RootInWorktree ==
    /\ Len(worktree_root) <= Len(root)
    /\ \A i \in 1..Len(worktree_root) : root[i] = worktree_root[i]

\* C17: when worktree_root is not a component-wise prefix of root, walk() never
\* asks the file system and never calls for_each, and what it returns is
\* Error::RootNotInWorktree; it returns that error in no other case.
C17_RootNotInWorktree ==
    /\ ~RootInWorktree =>
          /\ symlink_metadata_calls = <<>>
          /\ for_each_calls = 0
          /\ walk_pc = "done" => walk_ret.res = "RootNotInWorktree"
    /\ walk_ret.res = "RootNotInWorktree" => ~RootInWorktree

\* C17 witness: root and worktree_root are of the same depth and differ in a
\* component, a symlink lies at the worktree root, and walk() has returned
\* Error::RootNotInWorktree.
C17_Witness ==
    /\ worktree_root = <<"b">>
    /\ root = <<"a", "b">>
    /\ symlinks = {<<"b">>}
    /\ walk_ret.res = "RootNotInWorktree"

\* The normalized worktree-relative root, when there is one.
NormalizedRelative == Normalize(StripPrefix(root, worktree_root).rest)

\* The 0-based positions of the components of the normalized relative root
\* that are symlinks.
SymlinkPositions ==
    {k \in 0..(Len(NormalizedRelative.path) - 1) :
        SymlinkMetadata(worktree_root \o SubSeq(NormalizedRelative.path, 1, k + 1)) = "symlink"}

\* C18: when root is inside the worktree, normalizes, and has a symlink among
\* the components of its normalized relative path, walk() returns
\* Error::SymlinkInRoot with the position of the first of them, having asked
\* the file system about the components up to that one and no other path.
C18_SymlinkInRootIndex ==
    (/\ walk_pc = "done"
     /\ RootInWorktree
     /\ NormalizedRelative.ok
     /\ SymlinkPositions # {})
        => LET first == CHOOSE k \in SymlinkPositions : \A j \in SymlinkPositions : k <= j
           IN /\ walk_ret = [res |-> "SymlinkInRoot", component_index |-> first]
              /\ symlink_metadata_calls =
                    [k \in 1..(first + 1) |-> worktree_root \o SubSeq(NormalizedRelative.path, 1, k)]

\* C18 witness: root is "a/../b" relative to the worktree and "b" is a symlink:
\* the error names component 0, the two components removed by normalization
\* are not counted.
C18_Witness ==
    /\ worktree_root = <<>>
    /\ root = <<"a", ParentDir, "b">>
    /\ symlinks = {<<"b">>}
    /\ walk_ret = [res |-> "SymlinkInRoot", component_index |-> 0]

(***************************************************************************)
(* Properties of git_config::File.                                         *)
(***************************************************************************)
\* The sections of the file (those that would be written out) whose header
\* has that name and subsection name.
SectionsNamed(section_name, subsection_name) ==
    {id \in {section_order[i] : i \in DOMAIN section_order} :
        section_headers[id] = Header(section_name, subsection_name)}

\* The one added last: ids ascend in the order of addition.
LastAdded(ids) == CHOOSE id \in ids : \A other \in ids : other <= id

Without(order, id) == SelectSeq(order, LAMBDA x : x # id)

\* C19: remove_section(name, subsection) removes exactly the section added
\* last among the sections of the file with that name and subsection and
\* returns its body, the other sections stay in their order, and it returns
\* None and removes nothing when the file has no such section.
C19_RemoveLastAdded ==
    [][config_ret'.op = "remove_section" =>
         LET named == SectionsNamed(config_ret'.name, config_ret'.subsection_name)
         IN IF named = {}
            THEN /\ config_ret'.res = "None"
                 /\ section_order' = section_order
            ELSE /\ config_ret'.res = "Some"
                 /\ config_ret'.body = sections[LastAdded(named)]
                 /\ section_order' = Without(section_order, LastAdded(named))
                 /\ LastAdded(named) \notin DOMAIN sections']_vars

(***************************************************************************)
(* Properties of git_revision::describe.                                   *)
(***************************************************************************)
\* min(max_candidates, 32) of the options.
CandidateLimit == IF max_candidates_option <= 32 THEN max_candidates_option ELSE 32

\* The value 1 << k of a k below 32.
SingleBit(flags) == \E k \in 0..31 : flags = {k}

CandidatesWithinLimit ==
    /\ Len(candidates) <= CandidateLimit
    /\ \A i \in DOMAIN candidates :
          /\ SingleBit(candidates[i].identity_bit)
          /\ candidates[i].identity_bit = {candidates[i].order}
    /\ \A i, j \in DOMAIN candidates :
          i # j => candidates[i].identity_bit # candidates[j].identity_bit
    /\ describe_ret.res # "panic"

StopsAtNamedCommitBeyondLimit ==
    (/\ describe_pc = "search"
     /\ queue # <<>>
     /\ Head(queue) \in DOMAIN name_by_oid
     /\ Len(candidates) >= CandidateLimit)
    => /\ describe_pc' = "after_search"
       /\ gave_up_on_commit' = Head(queue)
       /\ candidates' = candidates
       /\ seen' = seen
       /\ enqueued' = enqueued

\* C20: describe() never tracks more than min(max_candidates, 32)
\* candidates, every candidate has its own identity 1 << k with k < 32 (no
\* shift overflows), and the search loop stops at the named commit it meets
\* when the limit is reached, without expanding it.
C20_CandidateLimit == [](CandidatesWithinLimit) /\ [][StopsAtNamedCommitBeyondLimit]_vars

\* The option exceeds 32, 32 candidates are tracked and the search gave up
\* on the next named commit.
C20_Witness ==
    /\ max_candidates_option > MAX_CANDIDATES
    /\ Len(candidates) = MAX_CANDIDATES
    /\ gave_up_on_commit # 0
    /\ describe_pc = "after_search"

(***************************************************************************)
(* Properties of count::objects: the statistics, the Counts of a commit    *)
(* with parents, malformed objects and the interrupt flag.                 *)
(***************************************************************************)
\* C23: at successful return input_objects is the number of items of the
\* input, repeated ids counted each time, whatever the policy, the function
\* and the number of Counts.
C23_InputObjectsIsInputLength ==
    ret.res = "Ok" => ret.outcome.input_objects = Len(objects_ids)

\* C23 witness: objects() got the same commit twice in two chunks and
\* returned its five objects with input_objects = 2.
C23_Witness ==
    /\ ret.res = "Ok" /\ Parallel
    /\ input_object_expansion = "TreeContents"
    /\ objects_ids = <<"c0", "c0">>
    /\ ret.outcome.input_objects = 2
    /\ Len(ret.counts) = 5

\* C30: a worker returns Error::Interrupted only from its per-id check and
\* only when the flag is true there, so a call returns Interrupted only
\* after such a check, and never while the flag is unset.
C30_InterruptedOnlyWhenFlagSeen ==
    /\ [](ret.res = "Interrupted" => (should_interrupt /\ interrupt_observed))
    /\ [][\A w \in Workers :
            (workers'[w].res = "Interrupted" /\ workers[w].res # "Interrupted")
                => (should_interrupt /\ workers[w].pc = "loop")]_vars

\* C30 witness: objects_unthreaded() was entered with the flag unset,
\* counted an object, found the flag set at a later check and returned
\* Interrupted.
C30_Witness ==
    /\ fn = "objects_unthreaded"
    /\ ~interrupt_on_entry
    /\ seen_objs # {}
    /\ ret.res = "Interrupted"

\* The Counts made by id_to_count, of a call without pack lookups.
NotLookedUp(counts) == {i \in 1..Len(counts) : counts[i].entry_pack_location = "NotLookedUp"}

\* C21 as stated: at successful return decoded_objects is at least the
\* number of returned Counts.
C21_DecodedAtLeastCounts ==
    ret.res = "Ok" => ret.outcome.decoded_objects >= Len(ret.counts)

\* C21: push_obj_count_unique and the find closure of the tree traversal
\* count every Count they append in decoded_objects; id_to_count, which
\* makes the Counts of the objects a delegate collected, does not.  At
\* successful return decoded_objects is at least the number of Counts not
\* made by id_to_count (told apart in objects_unthreaded(), where id_to_count
\* makes no pack lookup), and under AsIs it is the number of Counts.
C21_DecodedCoversDecodedCounts ==
    ret.res = "Ok" =>
        /\ fn = "objects_unthreaded" =>
              ret.outcome.decoded_objects >= Len(ret.counts) - Cardinality(NotLookedUp(ret.counts))
        /\ input_object_expansion = "AsIs" =>
              ret.outcome.decoded_objects = Len(ret.counts)

\* C21 witness: objects_unthreaded() expanded the tree t1 = {b1}: two Counts,
\* the one of b1 made by id_to_count, and decoded_objects = 1.
C21_Witness ==
    /\ ret.res = "Ok" /\ fn = "objects_unthreaded"
    /\ input_object_expansion = "TreeContents"
    /\ objects_ids = <<"t1">>
    /\ Len(ret.counts) = 2
    /\ Cardinality(NotLookedUp(ret.counts)) = 1
    /\ ret.outcome.decoded_objects = 1

\* C22 as stated: when a worker ends its chunk successfully, its
\* expanded_objects is the number of its Counts that were made by expansion,
\* that is all of its Counts but those pushed for an input id itself.
C22_ExpandedIsExpansionCounts ==
    \A w \in Workers :
        (workers[w].pc = "result" /\ workers[w].res = "Ok")
            => workers[w].outcome.expanded_objects
                  = Len(workers[w].out) - workers[w].root_counts

\* The objects the diffs from the parents' trees to the tree of commit c
\* report as additions or modifications.
ReportedByDiff(c) ==
    UNION { Range(TreeChanges(Find(Find(c).parents[i]).tree, Find(c).tree).visits)
            : i \in 1..Len(Find(c).parents) }

\* C24 as stated: under TreeAdditionsComparedToAncestor a call on one
\* starting commit with parents returns Counts of the commit, of its root
\* tree and of the objects the diffs report as additions or modifications,
\* and of nothing else.
C24_OnlyCommitTreeAndAdditions ==
    (/\ ret.res = "Ok"
     /\ input_object_expansion = "TreeAdditionsComparedToAncestor"
     /\ Len(objects_ids) = 1
     /\ Find(objects_ids[1]).kind = "Commit"
     /\ Find(objects_ids[1]).parents # <<>>)
        => Ids(ret.counts) \subseteq
              {objects_ids[1], Find(objects_ids[1]).tree} \cup ReportedByDiff(objects_ids[1])

\* The worker is about to unwrap the tree id of a commit or the target id
\* of a tag, and the object has none.
MissingLink(l, policy) ==
    \/ /\ l.pc = "push_root"
       /\ policy # "AsIs"
       /\ \/ Find(l.id).kind = "Commit" /\ Find(l.id).tree = ""
          \/ Find(l.id).kind = "Tag" /\ Find(l.id).target = ""
    \/ /\ l.pc = "push_parent"
       /\ Find(Head(l.parent_commit_ids)).tree = ""

ErrorValues == {"Find", "InputIteration", "TreeTraverse", "TreeChanges", "CommitDecode",
                "Interrupted"}

\* C29: under the tree policies a worker that comes to a commit without a
\* tree id or a tag without a target id panics at the `expect`; it returns
\* no Error value for it, and a call on such an object alone that got past
\* the interrupt check ends in the panic.
C29_MalformedObjectPanics ==
    /\ [][\A w \in Workers :
            (MissingLink(workers[w], input_object_expansion)
                /\ workers'[w] # workers[w] /\ ret' = ret)
               => (workers'[w].res = "Panic" /\ workers'[w].pc = "result")]_vars
    /\ []((/\ ret.res # "none"
           /\ Len(objects_ids) = 1
           /\ objects_ids[1] \in {"cn", "gn"}
           /\ input_object_expansion # "AsIs"
           /\ ~interrupt_observed)
              => (ret.res = "Panic" /\ ret.res \notin ErrorValues))

\* C29 witness: objects() under TreeAdditionsComparedToAncestor got the
\* commits c0 and cm in two chunks; a worker counted cm's parent cn, found
\* cn without a tree id, and the call panicked.
C29_Witness ==
    /\ Parallel
    /\ input_object_expansion = "TreeAdditionsComparedToAncestor"
    /\ objects_ids = <<"c0", "cm">>
    /\ "cn" \in seen_objs
    /\ ret.res = "Panic"

(***************************************************************************)
(* Properties of traverse_with_lookup: the interrupt flag in the decode    *)
(* activity, the chunks, the join and the suppressed errors.               *)
(***************************************************************************)

\* C25 as stated: once a failed verification has set the flag, a worker
\* finishes the entry it is at and starts no further entry of its chunk: of
\* the entries of a chunk, at most one is taken up with the flag already set.
C25_WorkerStopsAfterCurrentEntry ==
    \A d \in Workers : decoders[d].after_flag <= 1

\* C25: the worker closure never reads the flag.  After a failed
\* verification has set it, a worker inside its chunk can still take the
\* next step of its loop; the flag is looked at when the result of a whole
\* chunk is fed to the reducer, so a traversal that ended as interrupted has
\* worked through at least one whole chunk.
C25_FlagObservedAfterChunk ==
    /\ \A d \in Workers :
          (FlagSetByVerification /\ Traversing /\ decoders[d].pc = "decode")
              => ENABLED DecodeEntry(d)
    /\ traversal_result.res = "Interrupted"
          => (should_interrupt /\ Len(decoded) >= Min(chunk_size, Len(index_entries)))

\* C25 witness: the verification failed before any entry was decoded, the
\* worker decoded both entries of its chunk all the same, and the reducer
\* ended the traversal when it was fed the chunk.
C25_Witness ==
    /\ FlagSetByVerification
    /\ chunk_size = 2
    /\ decoded = <<1, 2>>
    /\ trav_reducer.entries_seen = 2
    /\ traversal_result.res = "Interrupted"

\* The offsets of a sequence of entries, and a sequence of chunks laid end
\* to end.
Offsets(entries) == [i \in 1..Len(entries) |-> entries[i].offset]

RECURSIVE Flatten(_)
Flatten(cs) == IF cs = <<>> THEN <<>> ELSE Head(cs) \o Flatten(Tail(cs))

\* The offsets rise by one from entry to entry: a contiguous slice of the
\* entries sorted by offset (the offsets of the model are 1..n).
ContiguousAscending(entries) ==
    \A i \in 1..(Len(entries) - 1) : entries[i + 1].offset = entries[i].offset + 1

\* No thread has taken a chunk yet.
NoChunkTaken == decoded = <<>> /\ \A d \in Workers : decoders[d].pc = "idle"

\* C26: the chunks not yet taken are contiguous slices of the entries sorted
\* by ascending offset, of 1..chunk_size entries each, and laid end to end
\* they are a slice as well; before the first chunk is taken they hold every
\* entry of the index exactly once.  What a worker has left of its chunk is
\* such a slice, no entry is decoded twice, and two entries of one chunk are
\* decoded in ascending offset order.
C26_ChunksPartitionSortedEntries ==
    /\ \A c \in 1..Len(input_chunks) :
          /\ Len(input_chunks[c]) \in 1..chunk_size
          /\ ContiguousAscending(input_chunks[c])
    /\ ContiguousAscending(Flatten(input_chunks))
    /\ (Traversing /\ NoChunkTaken)
          => /\ Offsets(Flatten(input_chunks)) = [i \in 1..Len(index_entries) |-> i]
             /\ Range(Flatten(input_chunks)) = Range(index_entries)
    /\ \A d \in Workers :
          /\ Len(decoders[d].entries) <= chunk_size
          /\ ContiguousAscending(decoders[d].entries)
    /\ \A i, j \in 1..Len(decoded) :
          i < j => /\ decoded[i] # decoded[j]
                   /\ (decoded[i] - 1) \div chunk_size = (decoded[j] - 1) \div chunk_size
                         => decoded[i] < decoded[j]

\* C26 witness: an index that lists three entries by descending offset was
\* cut into the chunks {1, 2} and {3}; the entries of the first chunk are
\* decoded in the order 1, 2, and the second chunk is the one being decoded.
C26_Witness ==
    /\ Offsets(index_entries) = <<3, 2, 1>>
    /\ chunk_size = 2
    /\ decoded = <<1, 2>>
    /\ input_chunks = <<>>
    /\ \E d \in Workers : decoders[d].pc = "decode" /\ Offsets(decoders[d].entries) = <<3>>

\* C27: when traverse_with_lookup has returned, the verification has
\* returned, the decode activity has ended with no thread left in a chunk,
\* and the call returned Ok exactly when both of them returned Ok.
C27_ReturnsAfterBothEnded ==
    tret.res # "none" =>
        /\ verify_result # "none"
        /\ traversal_result.res # "none"
        /\ \A d \in Workers : decoders[d].pc \in {"idle", "ended"}
        /\ tret.res = "Ok" <=> (verify_result = "Ok" /\ traversal_result.res = "Ok")

\* C27 witness: the checksums were verified, the three entries were decoded
\* by two threads, and the call returned Ok with the three statistics.
C27_Witness ==
    /\ check = "All"
    /\ thread_limit = 2
    /\ chunk_size = 1
    /\ verify_result = "Ok"
    /\ traversal_result.res = "Ok"
    /\ tret.res = "Ok"
    /\ Len(tret.stats) = 3

\* The entry a worker takes up in this step, if it takes up one.
StartsEntry(d, e) ==
    /\ decoders[d].pc = "decode"
    /\ decoders[d].entries # <<>>
    /\ e = Head(decoders[d].entries)
    /\ decoders'[d] # decoders[d]
    /\ decoded' = Append(decoded, e.offset)

\* C28: a worker goes on with its chunk after a failed entry only when the
\* failure is a pack-decode error and decode errors are not fatal, and that
\* step sends one info message; no other step of a worker sends one.  An
\* entry the processor failed on ends the chunk with the processor's error
\* under every policy, and a traversal that decoded such an entry does not
\* return Ok.
C28_OnlyNonFatalDecodeErrorSuppressed ==
    /\ [][\A d \in Workers : \A e \in Range(index_entries) :
            StartsEntry(d, e) =>
               /\ (e.outcome # "ok" /\ decoders'[d].pc = "decode")
                     => (e.outcome = "decode_err" /\ ~FatalDecodeError(check)
                            /\ progress_info' = progress_info + 1)
               /\ (e.outcome = "decode_err" /\ ~FatalDecodeError(check))
                     => (decoders'[d].pc = "decode" /\ progress_info' = progress_info + 1)
               /\ ~(e.outcome = "decode_err" /\ ~FatalDecodeError(check))
                     => progress_info' = progress_info
               /\ e.outcome = "processor_err"
                     => (decoders'[d].pc = "result" /\ decoders'[d].res = "Processor")]_vars
    /\ []((Range(decoded) \cap OffsetsWith({"processor_err"}) # {})
              => traversal_result.res \notin {"Ok"})

\* C28 witness: under the non-fatal policy the first entry failed to decode
\* and was passed over with one message, the processor failed on the second
\* entry of the same chunk, and the call returned the processor's error.
C28_Witness ==
    /\ ~FatalDecodeError(check)
    /\ chunk_size = 2
    /\ Len(index_entries) >= 2
    /\ SortedEntries[1].outcome = "decode_err"
    /\ SortedEntries[2].outcome = "processor_err"
    /\ decoded = <<1, 2>>
    /\ progress_info = 1
    /\ tret.res = "Processor"

(***************************************************************************)
(* Properties of describe(): the commit named by Error::Find.              *)
(***************************************************************************)

\* C31 as stated: an Error::Find returned by describe() carries the id of
\* the commit that could not be found.
C31_FindErrorNamesMissingCommit ==
    describe_ret.res = "Find" => commit_state[describe_ret.oid] = "missing"

\* No item occurs twice in the sequence.
NoDuplicates(q) == \A i, j \in 1..Len(q) : i # j => q[i] # q[j]

\* C39: describe() comes to its end on every graph whose commits can all be
\* found, and over
\* the search loop and finish_depth_computation together the parent
\* expansion puts a commit on the queue at most once, and only a commit that
\* was not in the seen map, which holds the starting commit from the start.
C39_DescribeTerminates ==
    /\ <>(describe_pc = "done")
    /\ [](NoDuplicates(enqueued) /\ StartCommit \notin Range(enqueued))
    /\ [][\A c \in Range(enqueued') \ Range(enqueued) :
              c \notin DOMAIN seen /\ c \in DOMAIN seen']_vars

\* C39 witness: commit 3 is a parent of both commit 1 and commit 2; it was
\* put on the queue once, and describe() returned the name found on it.
C39_Witness ==
    /\ commit_parents = <<<<2, 3>>, <<3>>, <<>>>>
    /\ commit_state = <<"ok", "ok", "ok">>
    /\ DOMAIN name_by_oid = {3}
    /\ Len(enqueued) = 2
    /\ Range(enqueued) = {2, 3}
    /\ describe_pc = "done"
    /\ describe_ret.res = "Some"
    /\ describe_ret.name = 3

(***************************************************************************)
(* Properties of the git-config File: the four section collections.        *)
(***************************************************************************)

\* The section ids a list of lookup nodes holds, and those of the whole tree.
IdsOfNodes(nodes) ==
    UNION { IF nodes[i].kind = "Terminal" THEN Range(nodes[i].ids)
            ELSE UNION { Range(nodes[i].map[k]) : k \in DOMAIN nodes[i].map }
            : i \in DOMAIN nodes }

IdsOfTree(tree) == UNION { IdsOfNodes(tree[n]) : n \in DOMAIN tree }

\* The lookup tree files the id under the name and subsection of its header.
FiledUnderHeader(id) ==
    LET h == section_headers[id]
        found == section_ids_by_name_and_subname(section_lookup_tree, h.name, h.subsection_name)
    IN found.ok /\ id \in Range(found.ids)

\* C38 as stated: after any sequence of the four operations the lookup
\* tree, section_headers, sections and section_order hold the same section
\* ids, the lookup tree files each id under the name in its header, and no
\* operation has panicked.
C38_SectionCollectionsAgree ==
    /\ IdsOfTree(section_lookup_tree) = DOMAIN section_headers
    /\ DOMAIN section_headers = DOMAIN sections
    /\ DOMAIN sections = Range(section_order)
    /\ \A id \in DOMAIN section_headers : FiledUnderHeader(id)
    /\ config_ret.res # "panic"

(***************************************************************************)
(* Properties of count::objects: starting trees and blobs, objects that    *)
(* are counted without a lookup, the order of the checks on an item, and   *)
(* the two entry points compared.                                          *)
(***************************************************************************)

\* A tree with everything below it; a blob alone.
RECURSIVE TreeClosure(_)
TreeClosure(id) ==
    {id} \cup UNION { IF Find(id).entries[i].mode = "Tree"
                      THEN TreeClosure(Find(id).entries[i].oid)
                      ELSE {Find(id).entries[i].oid}
                      : i \in DOMAIN Find(id).entries }

OnlyTreesAndBlobs(ids) == \A i \in DOMAIN ids : Find(ids[i]).kind \in {"Tree", "Blob"}

\* C32: a successful call whose starting ids are trees and blobs returns,
\* under TreeAdditionsComparedToAncestor, one Count per distinct starting id
\* and nothing found by expansion; under TreeContents it returns one Count
\* for every object of the starting trees, at every depth.
C32_StartingTreeOrBlob ==
    (ret.res = "Ok" /\ OnlyTreesAndBlobs(objects_ids)) =>
        /\ input_object_expansion = "TreeAdditionsComparedToAncestor" =>
              /\ Ids(ret.counts) = Range(objects_ids)
              /\ Len(ret.counts) = Cardinality(Range(objects_ids))
              /\ ret.outcome.expanded_objects = 0
        /\ input_object_expansion = "TreeContents" =>
              LET all == UNION { TreeClosure(objects_ids[i]) : i \in DOMAIN objects_ids }
              IN /\ Ids(ret.counts) = all
                 /\ Len(ret.counts) = Cardinality(all)

\* C32 witness: the tree r0 was given twice; under TreeContents the call
\* returned its five objects, under TreeAdditionsComparedToAncestor the
\* Count of r0 alone.
C32_Witness ==
    /\ objects_ids = <<"r0", "r0">>
    /\ phase = "second"
    /\ first_ret.res = "Ok"
    /\ Ids(first_ret.counts) = {"r0", "t1", "b1", "b2"}
    /\ input_object_expansion = "TreeAdditionsComparedToAncestor"
    /\ ret.res = "Ok"
    /\ Len(ret.counts) = 1
    /\ ret.counts[1].id = "r0"

\* The call expands a tree that holds the blob z, which is not in the store.
ReachesMissingBlob ==
    \/ /\ input_object_expansion = "TreeContents"
       /\ Range(objects_ids) \cap {"tz", "rz", "cz"} # {}
    \/ /\ input_object_expansion = "TreeAdditionsComparedToAncestor"
       /\ "cz" \in Range(objects_ids)

\* C33: a blob found by the tree traversal or the tree diff is counted
\* without a lookup that could fail: where the only object the store does
\* not have is such a blob, no worker and no call ends in a lookup error; the
\* blob is never among the failed lookups, and a successful call that came to
\* the blob returns one Count of it.
C33_MissingBlobIsCounted ==
    /\ "x" \notin Range(objects_ids) =>
          /\ ret.res \notin FindErrors
          /\ \A w \in Workers : workers[w].res \notin FindErrors
          /\ find_failures = <<>>
    /\ "z" \notin Range(find_failures)
    /\ (ret.res = "Ok" /\ ReachesMissingBlob)
          => Cardinality({i \in 1..Len(ret.counts) : ret.counts[i].id = "z"}) = 1

\* C33 witness: objects() under TreeAdditionsComparedToAncestor got cz and
\* c0 in two chunks; the diff of r0 against rz reported z, and the call
\* returned Ok with a Count of z.
C33_Witness ==
    /\ Parallel
    /\ input_object_expansion = "TreeAdditionsComparedToAncestor"
    /\ objects_ids = <<"cz", "c0">>
    /\ Find("z").kind = "None"
    /\ ret.res = "Ok"
    /\ "z" \in Ids(ret.counts)

\* C34: a worker that takes an item while the flag is set ends with
\* Interrupted, whatever the item is: the iterator's error is not returned
\* and the store is not asked.
C34_InterruptCheckedFirst ==
    [][\A w \in Workers :
          (/\ workers[w].pc = "loop"
           /\ workers[w].oids # <<>>
           /\ should_interrupt
           /\ workers'[w] # workers[w]
           /\ ret' = ret)
             => /\ workers'[w].pc = "result"
                /\ workers'[w].res = "Interrupted"
                /\ db_find_called' = db_find_called
                /\ find_failures' = find_failures]_vars

\* C34 witness: objects_unthreaded() counted c0, the flag was set, and the
\* call returned Interrupted at the next item, an id the store does not have.
C34_Witness ==
    /\ fn = "objects_unthreaded"
    /\ objects_ids = <<"c0", "x">>
    /\ ~interrupt_on_entry
    /\ "c0" \in seen_objs
    /\ find_failures = <<>>
    /\ ret.res = "Interrupted"

(***************************************************************************)
(* Properties of traverse_with_lookup: the caller's flag and the           *)
(* statistics records.                                                     *)
(***************************************************************************)

\* C35: no step of traverse_with_lookup takes the flag from true to false,
\* and when the call has returned after a failed verification the flag is
\* true.
C35_FlagNeverCleared ==
    /\ [][should_interrupt => should_interrupt']_vars
    /\ []((tret.res # "none" /\ verify_result \notin {"none", "Ok"}) => should_interrupt)

\* C35 witness: the flag was true on entry (the verification succeeded, so
\* the call did not set it), the entries were decoded, and the flag is true
\* when the call has returned.
C35_Witness ==
    /\ check = "All"
    /\ verify_result = "Ok"
    /\ Len(decoded) >= 1
    /\ tret.res # "none"
    /\ should_interrupt

\* The Counts that id_to_count made in a call without pack lookups are
\* those of objects found by expansion.
Discovered(counts) == {counts[i].id : i \in NotLookedUp(counts)}

\* C36 as stated: for one input, the Counts of objects_unthreaded() that
\* were made for traversed or diffed objects are NotLookedUp, all Counts of
\* objects() are looked up, and apart from that both calls return the same
\* ids and the same Outcome.
C36_SameButForPackLocation ==
    (phase = "second" /\ fn = "objects" /\ first_ret.res = "Ok" /\ ret.res = "Ok") =>
        /\ \A i \in 1..Len(ret.counts) : ret.counts[i].entry_pack_location = "LookedUp"
        /\ input_object_expansion = "AsIs" => Discovered(first_ret.counts) = {}
        /\ Ids(first_ret.counts) = Ids(ret.counts)
        /\ first_ret.outcome = ret.outcome

\* The chunk an offset falls into, counted from zero, and the number of
\* entries of that chunk.
ChunkOf(offset) == (offset - 1) \div chunk_size

ChunkLen(c) == Min(chunk_size, Len(index_entries) - c * chunk_size)

\* C37: the records a worker has collected are of entries of one chunk, in
\* the order of the chunk; when it ends its chunk successfully under a fatal
\* policy it has one record per entry of the chunk.  A call that returned Ok
\* has one record per index entry under a fatal policy, and as many records
\* as there are entries less the skipped ones, one message each, otherwise.
C37_OneRecordPerEntry ==
    /\ \A d \in Workers :
          LET st == decoders[d].stats
          IN /\ \A i, j \in 1..Len(st) :
                   i < j => (st[i] < st[j] /\ ChunkOf(st[i]) = ChunkOf(st[j]))
             /\ (decoders[d].pc = "result" /\ decoders[d].res = "Ok" /\ FatalDecodeError(check))
                   => (st # <<>> /\ Len(st) = ChunkLen(ChunkOf(st[1])))
    /\ tret.res = "Ok" =>
          /\ NoDuplicates(tret.stats)
          /\ FatalDecodeError(check) =>
                /\ Len(tret.stats) = Len(index_entries)
                /\ Range(tret.stats) = 1..Len(index_entries)
          /\ ~FatalDecodeError(check) =>
                /\ Len(tret.stats) = Len(index_entries) - progress_info
                /\ progress_info = Cardinality(OffsetsWith({"decode_err"}))

\* C37 witness: under a fatal policy three entries in chunks of two were
\* decoded and the call returned Ok with the three records.
C37_Witness ==
    /\ check = "SkipFileChecksumVerification"
    /\ chunk_size = 2
    /\ Len(index_entries) = 3
    /\ tret.res = "Ok"
    /\ tret.stats = <<1, 2, 3>>

====
